---- MODULE Spec2Model ----
(***************************************************************************)
(* A model of the elaborated netlist of netlist.cc: the nexus ring of     *)
(* NetObj::Link pins (connect, unlink, destruction, the ring queries) and *)
(* the expression reference counter of NetNet.                            *)
(***************************************************************************)
EXTENDS Integers, Sequences, FiniteSets, TLC

(***************************************************************************)
(* Bounds of the model.                                                    *)
(***************************************************************************)
\* Number of NetNet signals (one pin each) beside the two NetBUFZ devices.
NumSignals == 1

\* Number of expression objects and of memory-assignment statements that can
\* be live at the same time.
MaxExprs == 3
MaxStmts == 1

\* Number of NetNet signals that can be registered with the Design.
MaxNets == 2

\* Largest eref_count_ that incr_eref is called up to on those signals.
MaxEref == 1

\* Longest scope path that find_parameter is called with, in characters.
MaxPathLen == 5

\* Number of NetProc statements that can be live at the same time.
MaxProcs == 3

\* Number of connect calls that wire the pins of the memory ports.
MaxWires == 3

\* Number of set_table calls on a UDP.
MaxRows == 2

\* Number of expressions with operands that are built with a width.
MaxWExprs == 1

\* Largest width, size and select width of a device.
MaxDevWidth == 2

(***************************************************************************)
(* The objects of the netlist.                                             *)
(***************************************************************************)
BufzNodes == {[kind |-> "NetBUFZ", id |-> i] : i \in 1..2}
SignalNodes == {[kind |-> "NetNet", id |-> i] : i \in 1..NumSignals}
Nodes == BufzNodes \cup SignalNodes

\* The ports of one NetMemory, each a NetRamDq(n, mem, awid) with awid == AWidth
\* on a memory with width() == Width.
RamDqs == {[kind |-> "NetRamDq", id |-> i] : i \in 1..3}
AWidth == 1
Width == 1
ramA == [kind |-> "NetRamDq", id |-> 1]
ramB == [kind |-> "NetRamDq", id |-> 2]
NoRam == [kind |-> "none", id |-> 0]

b1 == [kind |-> "NetBUFZ", id |-> 1]
b2 == [kind |-> "NetBUFZ", id |-> 2]

\* dynamic_cast<const NetNet*>(obj) != 0
IsSignal(n) == n.kind = "NetNet"

\* npins_ as the constructors set it: NetBUFZ is NetNode(n, 2); the signals
\* of the model are built with npins = 1.
pin_count(n) ==
    IF IsSignal(n) THEN 1
    ELSE IF n.kind = "NetRamDq" THEN 3 + 2 * Width + AWidth
    ELSE 2

\* A Link is identified by its owner and its index in the owner.
Link(n, i) == [node_ |-> n, pin_ |-> i]
PinsOf(n) == {Link(n, i) : i \in 0..(pin_count(n) - 1)}
NexusLinks == UNION {PinsOf(n) : n \in Nodes}
Links == UNION {PinsOf(n) : n \in Nodes \cup RamDqs}
NoLink == [node_ |-> [kind |-> "none", id |-> 0], pin_ |-> 0]

\* dir_ after construction: Link::Link sets PASSIVE, NetBUFZ::NetBUFZ sets
\* pin 0 to OUTPUT and pin 1 to INPUT, NetNet leaves PASSIVE.
get_dir(p) ==
    IF p.node_.kind = "NetBUFZ"
    THEN (IF p.pin_ = 0 THEN "OUTPUT" ELSE "INPUT")
    ELSE IF p.node_.kind = "NetRamDq"
         THEN (IF p.pin_ >= 3 + AWidth + Width THEN "OUTPUT" ELSE "INPUT")
         ELSE "PASSIVE"

\* The pins of a NetRamDq.
pin_InClock(n) == Link(n, 0)
pin_OutClock(n) == Link(n, 1)
pin_WE(n) == Link(n, 2)
pin_Address(n, idx) == Link(n, 3 + idx)
pin_Data(n, idx) == Link(n, 3 + AWidth + idx)
pin_Q(n, idx) == Link(n, 3 + AWidth + Width + idx)

\* The signals and the nodes that are registered with the Design.  These
\* signals are numbered after the ones above and their pins take no part.
NetNets == {[kind |-> "NetNet", id |-> NumSignals + i] : i \in 1..MaxNets}
NetNodes == BufzNodes
NoNode == [kind |-> "none", id |-> 0]

Exprs == 1..MaxExprs
Procs == 1..MaxProcs
NoProc == 0
Stmts == 1..MaxStmts
NoExpr == 0
NoSignal == [kind |-> "none", id |-> 0]

\* The NetProcTop objects, and a null NetProcTop*.
Tops == {[kind |-> "NetProcTop", id |-> i] : i \in Procs}
NoTop == [kind |-> "none", id |-> 0]

\* A null iterator, a null argument handle and a null fun_data.
NoIter == [pos |-> 0, freed |-> FALSE, stale |-> FALSE, null |-> TRUE]
NoArg == "null"
NoData == [arg1 |-> NoArg, arg2 |-> NoArg, set |-> FALSE]

VARIABLES
    alive,        \* the set of constructed and not yet destroyed NetObj
    next_,        \* Link -> Link
    prev_,        \* Link -> Link
    pc,           \* "idle", inside connect, or "abort" (a failed assert)
    op,           \* the operation called last, with its argument
    cl, cr,       \* the arguments l and r of the running connect
    cur,          \* the local cur of connect
    pre,          \* next_/prev_ at the entry of the operation called last
    eref_count,   \* NetNet -> eref_count_
    exprs,        \* expression object -> its fields, or free
    stmts,        \* NetAssignMem_ object -> its fields, or free
    dup_call,     \* the last dup_expr call: its receiver and what it found
    nets,         \* the set of constructed and not yet destroyed NetNets
    signals_,     \* Design::signals_
    sig_next_,    \* NetNet -> sig_next_
    sig_prev_,    \* NetNet -> sig_prev_
    nodes_,       \* Design::nodes_
    node_next_,   \* NetNode -> node_next_
    node_prev_,   \* NetNode -> node_prev_
    design_,      \* NetNet or NetNode -> design_ is not 0
    mark_,        \* NetNet or NetNode -> mark_
    sig_order,    \* the registered signals in the order of their add_signal
    node_order,   \* the registered nodes in the order of their add_node
    parameters_,  \* Design::parameters_, a map from key to expression
    procs,        \* the set of constructed and not yet destroyed NetProc
    proc_next_,   \* NetProc -> next_
    block_live,   \* the NetBlock is constructed and not yet destroyed
    last_,        \* NetBlock::last_
    appended,     \* the statements given to append, in the order of the calls
    destroyed,    \* NetProc -> how many times its destructor has run
    ram_list_,    \* NetMemory::ram_list_
    ram_next_,    \* NetRamDq -> next_
    wires,        \* how many times the elaboration has called connect on ports
    cm_,          \* NetUDP::cm_ of the combinational UDP
    fsm_,         \* NetUDP::fsm_ of the sequential UDP: row -> state_t_
    rows,         \* how many times set_table has been called
    errors,       \* Design::errors
    wexprs,       \* the expressions built with a width, in order of construction
    dev,          \* the device that has been built, with its parameters
    attributes_,  \* NetObj -> attributes_
    ram_this,     \* absorb_partners in progress: this
    ram_cur,      \* absorb_partners in progress: cur
    ram_tmp,      \* absorb_partners in progress: tmp
    ram_trace,    \* the ports examined, read for next_ and deleted by it
    memories_,    \* Design::memories_, a map from name to memory
    funcs_,       \* Design::funcs_, a map from key to function definition
    tasks_,       \* Design::tasks_, a map from key to task definition
    procs_,       \* Design::procs_
    top_next_,    \* NetProcTop -> next_
    procs_idx_,   \* Design::procs_idx_, the cursor of a walk of the list
    proc_log,     \* the processes added and not deleted, the last added first
    va_args,      \* the arguments of the call that compiletf checks
    va_argv,      \* the iterator argv of the running compiletf
    va_msgs,      \* the messages that va_error_message has printed
    va_finish,    \* vpi_control(vpiFinish, 1) has been called
    va_data       \* fun_data of the running compiletf

erefVars == <<eref_count, exprs, stmts, dup_call>>

sigRingVars == <<signals_, sig_next_, sig_prev_, sig_order>>
nodeRingVars == <<nodes_, node_next_, node_prev_, node_order>>
designVars == <<nets, sigRingVars, nodeRingVars, design_, mark_>>

\* The variables of the Design and of what it holds, which the operations on
\* links, expressions and statements leave alone.
\* The variables of what follows the rings of the Design.
blockVars == <<procs, proc_next_, block_live, last_, appended, destroyed>>
ramVars == <<ram_list_, ram_next_, wires>>
udpVars == <<cm_, fsm_, rows, errors>>
stepVars == <<ram_this, ram_cur, ram_tmp, ram_trace>>
lookupVars == <<memories_, funcs_, tasks_>>
topVars == <<procs_, top_next_, procs_idx_, proc_log>>
vaVars == <<va_args, va_argv, va_msgs, va_finish, va_data>>
finalVars == <<lookupVars, topVars, vaVars>>
lastVars == <<wexprs, dev, attributes_, stepVars, finalVars>>
laterVars == <<parameters_, blockVars, ramVars, udpVars, lastVars>>

\* What the operations on parameters and what those on a block leave alone.
exceptParameters == <<alive, next_, prev_, cl, cr, cur, pre, erefVars,
                      designVars, blockVars, ramVars, udpVars, lastVars>>
exceptBlock == <<alive, next_, prev_, cl, cr, cur, pre, erefVars, designVars,
                 parameters_, ramVars, udpVars, lastVars>>
exceptRam == <<cl, cr, cur, erefVars, designVars, parameters_, blockVars,
               udpVars, lastVars>>
exceptSteps == <<cl, cr, cur, erefVars, designVars, parameters_, blockVars,
                 udpVars, wexprs, dev, attributes_, finalVars>>
exceptUdp == <<alive, next_, prev_, cl, cr, cur, pre, erefVars, designVars,
               parameters_, blockVars, ramVars, lastVars>>
exceptLast == <<alive, next_, prev_, cl, cr, cur, pre, erefVars, designVars,
                parameters_, blockVars, ramVars, udpVars, finalVars>>

otherVars == <<designVars, laterVars>>

vars == <<alive, next_, prev_, pc, op, cl, cr, cur, pre, erefVars, otherVars>>

(***************************************************************************)
(* The ring of links: Link::Link, Link::unlink, connect.                   *)
(***************************************************************************)
Ring == [next_ |-> next_, prev_ |-> prev_]
NoRing == [next_ |-> <<>>, prev_ |-> <<>>]

\* NetObj::Link::Link(): next_(this), prev_(this)
NewLinks(h, n) ==
    [next_ |-> [p \in Links |-> IF p \in PinsOf(n) THEN p ELSE h.next_[p]],
     prev_ |-> [p \in Links |-> IF p \in PinsOf(n) THEN p ELSE h.prev_[p]]]

unlink_keeps_own_links(h, p) ==
    LET h1 == [h EXCEPT !.prev_[h.next_[p]] = h.prev_[p]]
    IN  [h1 EXCEPT !.next_[h1.prev_[p]] = h1.next_[p]]

\* NetObj::Link::unlink(), statement by statement.
unlink(h, p) ==
    LET h1 == [h EXCEPT !.prev_[h.next_[p]] = h.prev_[p]]
        h2 == [h1 EXCEPT !.next_[h1.prev_[p]] = h1.next_[p]]
    IN  [h2 EXCEPT !.next_[p] = p, !.prev_[p] = p]

\* The asserts on entry of connect.
ConnectEntryNoSelfCheck(h, l, r) ==
    /\ h.prev_[h.next_[l]] = l
    /\ h.next_[h.prev_[l]] = l
    /\ h.prev_[h.next_[r]] = r
    /\ h.next_[h.prev_[r]] = r

ConnectEntryOk(h, l, r) ==
    /\ l # r
    /\ h.prev_[h.next_[l]] = l
    /\ h.next_[h.prev_[l]] = l
    /\ h.prev_[h.next_[r]] = r
    /\ h.next_[h.prev_[r]] = r

\* The asserts at the end of connect.
ConnectExitOk(h, l, r) ==
    /\ h.prev_[h.next_[l]] = l
    /\ h.next_[h.prev_[l]] = l
    /\ h.prev_[h.next_[r]] = r
    /\ h.next_[h.prev_[r]] = r

\* "Pull cur out of left list..."
PullOut(h, c) ==
    LET h1 == [h EXCEPT !.next_[h.prev_[c]] = h.next_[c]]
    IN  [h1 EXCEPT !.prev_[h1.next_[c]] = h1.prev_[c]]

\* "Put cur in right list"
PutInForgetsBackLink(h, c, r) ==
    LET h1 == [h EXCEPT !.next_[c] = h.next_[r]]
        h2 == [h1 EXCEPT !.prev_[c] = r]
    IN  [h2 EXCEPT !.next_[h2.prev_[c]] = c]

PutIn(h, c, r) ==
    LET h1 == [h EXCEPT !.next_[c] = h.next_[r]]
        h2 == [h1 EXCEPT !.prev_[c] = r]
        h3 == [h2 EXCEPT !.prev_[h2.next_[c]] = c]
    IN  [h3 EXCEPT !.next_[h3.prev_[c]] = c]

\* delete[] pins_ destroys the links from the last to the first, and each
\* ~Link unlinks.
RECURSIVE DeletePins(_, _, _)
DeletePins(h, n, k) ==
    IF k = 0 THEN h
    ELSE DeletePins(unlink(h, Link(n, k - 1)), n, k - 1)

LivePins == UNION {PinsOf(n) : n \in alive}

\* Walking next_ from p until p is met again: the links of p's ring in ring
\* order, p first.  The walk gives up after Cardinality(Links) steps, where
\* a walk in the program would not end.
RECURSIVE Walk(_, _, _, _)
Walk(h, p, c, fuel) ==
    IF fuel = 0 THEN <<>>
    ELSE IF h.next_[c] = p THEN <<c>>
    ELSE <<c>> \o Walk(h, p, h.next_[c], fuel - 1)

RingSeq(h, p) == Walk(h, p, p, Cardinality(Links))
RingOf(h, p) == LET seq == RingSeq(h, p) IN {seq[i] : i \in 1..Len(seq)}

\* The test "tmp == &r" that ends the loop of connect early.
StumbledOnRNever(tmp, r) == FALSE

StumbledOnR(tmp, r) == tmp = r

\* The condition of the do-while of connect.
LoopOnce(c, l) == FALSE

LoopForever(c, l) == TRUE

LoopAgain(c, l) == c # l

\* The do-while loop of connect run to its end, from cur == c.
RECURSIVE connect_loop(_, _, _, _, _)
connect_loop(h, l, r, c, fuel) ==
    LET tmp == h.next_[c]
    IN  IF StumbledOnR(tmp, r) \/ fuel = 0
        THEN h
        ELSE LET h1 == PutIn(PullOut(h, c), c, r)
             IN  IF LoopAgain(tmp, l)
                 THEN connect_loop(h1, l, r, tmp, fuel - 1)
                 ELSE h1

\* connect(l, r) as one step: the ring it leaves, and whether its asserts held.
connect(h, l, r) ==
    IF ~ConnectEntryOk(h, l, r)
    THEN [ring |-> h, ok |-> FALSE]
    ELSE LET h1 == connect_loop(h, l, r, l, Cardinality(Links))
         IN  [ring |-> h1, ok |-> ConnectExitOk(h1, l, r)]

\* NetObj::Link::is_linked()
is_linked_at_all(h, this) == h.next_[this] # this

\* NetObj::Link::is_linked(const NetObj::Link&that): the for loop from next_.
RECURSIVE is_linked_link_loop(_, _, _, _, _)
is_linked_link_loop(h, this, idx, that, fuel) ==
    IF this = idx \/ fuel = 0 THEN FALSE
    ELSE IF idx = that THEN TRUE
    ELSE is_linked_link_loop(h, this, h.next_[idx], that, fuel - 1)

is_linked_link(h, this, that) ==
    is_linked_link_loop(h, this, h.next_[this], that, Cardinality(Links))

(***************************************************************************)
(* The queries on a ring.  A walk of the program that would not end (it    *)
(* cannot on a well-formed ring) gives up after Cardinality(Links) links;  *)
(* a failed assert of next_link gives -1.                                  *)
(***************************************************************************)
\* The asserts of NetObj::Link::next_link.
next_link_ok(h, p) == h.prev_[h.next_[p]] = p /\ h.next_[h.prev_[p]] = p

RECURSIVE count_inputs_loop(_, _, _, _, _)
count_inputs_loop(h, pin, c, count, fuel) ==
    IF c = pin THEN count
    ELSE IF fuel = 0 \/ ~next_link_ok(h, c) THEN -1
    ELSE count_inputs_loop(h, pin, h.next_[c],
             IF get_dir(c) = "INPUT" THEN count + 1 ELSE count, fuel - 1)

count_inputs(h, pin) ==
    IF ~next_link_ok(h, pin) THEN -1
    ELSE count_inputs_loop(h, pin, h.next_[pin],
             IF get_dir(pin) = "INPUT" THEN 1 ELSE 0, Cardinality(Links))

RECURSIVE count_outputs_loop(_, _, _, _, _)
count_outputs_loop(h, pin, c, count, fuel) ==
    IF c = pin THEN count
    ELSE IF fuel = 0 \/ ~next_link_ok(h, c) THEN -1
    ELSE count_outputs_loop(h, pin, h.next_[c],
             IF get_dir(c) = "OUTPUT" THEN count + 1 ELSE count, fuel - 1)

count_outputs_skips_pin(h, pin) ==
    IF ~next_link_ok(h, pin) THEN -1
    ELSE count_outputs_loop(h, pin, h.next_[pin], 0, Cardinality(Links))

count_outputs(h, pin) ==
    IF ~next_link_ok(h, pin) THEN -1
    ELSE count_outputs_loop(h, pin, h.next_[pin],
             IF get_dir(pin) = "OUTPUT" THEN 1 ELSE 0, Cardinality(Links))

RECURSIVE count_signals_loop(_, _, _, _, _)
count_signals_loop(h, pin, c, count, fuel) ==
    IF c = pin THEN count
    ELSE IF fuel = 0 \/ ~next_link_ok(h, c) THEN -1
    ELSE count_signals_loop(h, pin, h.next_[c],
             IF IsSignal(c.node_) THEN count + 1 ELSE count, fuel - 1)

count_signals(h, pin) ==
    IF ~next_link_ok(h, pin) THEN -1
    ELSE count_signals_loop(h, pin, h.next_[pin],
             IF IsSignal(pin.node_) THEN 1 ELSE 0, Cardinality(Links))

\* NetObj::Link::is_linked(const NetObj&that): the for loop from next_.
RECURSIVE is_linked_loop(_, _, _, _, _)
is_linked_loop(h, this, idx, that, fuel) ==
    IF this = idx \/ fuel = 0 THEN FALSE
    ELSE IF idx.node_ = that THEN TRUE
    ELSE is_linked_loop(h, this, h.next_[idx], that, fuel - 1)

is_linked(h, this, that) ==
    is_linked_loop(h, this, h.next_[this], that, Cardinality(Links))

\* connected(l, r): the for loop over the pins of l, from idx.
RECURSIVE connected_loop(_, _, _, _)
connected_loop(h, l, r, idx) ==
    IF ~(idx < pin_count(l)) THEN TRUE
    ELSE IF ~is_linked(h, Link(l, idx), r) THEN FALSE
    ELSE connected_loop(h, l, r, idx + 1)

connected_first_pin_only(h, l, r) ==
    pin_count(l) = 0 \/ is_linked(h, Link(l, 0), r)

connected(h, l, r) == connected_loop(h, l, r, 0)

\* find_link_signal(net, pin, bidx): the signal and bidx, or sig = 0.
RECURSIVE find_link_signal_loop(_, _, _, _)
find_link_signal_loop(h, net, c, fuel) ==
    IF c.node_ = net \/ fuel = 0 \/ ~next_link_ok(h, c)
    THEN [sig |-> NoSignal]
    ELSE IF IsSignal(c.node_) THEN [sig |-> c.node_, bidx |-> c.pin_]
    ELSE find_link_signal_loop(h, net, h.next_[c], fuel - 1)

find_link_signal(h, net, pin) ==
    IF ~next_link_ok(h, Link(net, pin)) THEN [sig |-> NoSignal]
    ELSE find_link_signal_loop(h, net, h.next_[Link(net, pin)],
                               Cardinality(Links))

(***************************************************************************)
(* The rings of the Design: add_signal, del_signal, add_node, del_node.    *)
(***************************************************************************)
SigRing == [head |-> signals_, next |-> sig_next_, prev |-> sig_prev_,
            design |-> design_]
NodeRing == [head |-> nodes_, next |-> node_next_, prev |-> node_prev_,
             design |-> design_]

\* Design::add_signal past its assert, statement by statement.
add_signal(d, net) ==
    LET d1 == IF d.head = NoSignal
              THEN [d EXCEPT !.next[net] = net, !.prev[net] = net]
              ELSE LET a == [d EXCEPT !.next[net] = d.next[d.head]]
                       b == [a EXCEPT !.prev[net] = a.head]
                       c == [b EXCEPT !.prev[b.next[net]] = net]
                   IN  [c EXCEPT !.next[c.prev[net]] = net]
    IN  [d1 EXCEPT !.head = net, !.design[net] = TRUE]

del_signal_keeps_head(d, net) ==
    LET d2 == IF d.head = net
              THEN [d EXCEPT !.head = NoSignal]
              ELSE LET a == [d EXCEPT !.next[d.prev[net]] = d.next[net]]
                   IN  [a EXCEPT !.prev[a.next[net]] = a.prev[net]]
    IN  [d2 EXCEPT !.design[net] = FALSE]

\* Design::del_signal past its assert, statement by statement.
del_signal(d, net) ==
    LET d1 == IF d.head = net THEN [d EXCEPT !.head = d.prev[net]] ELSE d
        d2 == IF d1.head = net
              THEN [d1 EXCEPT !.head = NoSignal]
              ELSE LET a == [d1 EXCEPT !.next[d1.prev[net]] = d1.next[net]]
                   IN  [a EXCEPT !.prev[a.next[net]] = a.prev[net]]
    IN  [d2 EXCEPT !.design[net] = FALSE]

\* Design::add_node past its assert, statement by statement.
add_node(d, net) ==
    LET d1 == IF d.head = NoNode
              THEN [d EXCEPT !.next[net] = net, !.prev[net] = net]
              ELSE LET a == [d EXCEPT !.next[net] = d.next[d.head]]
                       b == [a EXCEPT !.prev[net] = a.head]
                       c == [b EXCEPT !.prev[b.next[net]] = net]
                   IN  [c EXCEPT !.next[c.prev[net]] = net]
    IN  [d1 EXCEPT !.head = net, !.design[net] = TRUE]

\* Design::del_node past its assert, statement by statement.
del_node(d, net) ==
    LET d1 == IF d.head = net THEN [d EXCEPT !.head = d.prev[net]] ELSE d
        d2 == IF d1.head = net
              THEN [d1 EXCEPT !.head = NoNode]
              ELSE LET a == [d1 EXCEPT !.prev[d1.next[net]] = d1.prev[net]]
                   IN  [a EXCEPT !.next[a.prev[net]] = a.next[net]]
    IN  [d2 EXCEPT !.design[net] = FALSE]

\* seq without its element x.
Without(seq, x) == SelectSeq(seq, LAMBDA y : y # x)

(***************************************************************************)
(* Actions on the nexus.                                                   *)
(***************************************************************************)
\* NetObj::NetObj: a node with fresh links, each a ring of its own; NetNet::NetNet
\* starts eref_count_ at 0.
NewNode(n) ==
    /\ pc = "idle"
    /\ n \in Nodes \ alive
    /\ alive' = alive \cup {n}
    /\ next_' = NewLinks(Ring, n).next_
    /\ prev_' = NewLinks(Ring, n).prev_
    /\ op' = [name |-> "new", node |-> n]
    /\ pre' = Ring
    /\ eref_count' = IF IsSignal(n) THEN [eref_count EXCEPT ![n] = 0]
                                    ELSE eref_count
    /\ IF n \in NetNodes
       THEN /\ node_next_' = [node_next_ EXCEPT ![n] = NoNode]
            /\ node_prev_' = [node_prev_ EXCEPT ![n] = NoNode]
            /\ design_' = [design_ EXCEPT ![n] = FALSE]
            /\ mark_' = [mark_ EXCEPT ![n] = FALSE]
       ELSE UNCHANGED <<node_next_, node_prev_, design_, mark_>>
    /\ UNCHANGED <<pc, cl, cr, cur, exprs, stmts, dup_call>>
    /\ UNCHANGED <<nets, sigRingVars, nodes_, node_order>>
    /\ UNCHANGED laterVars

\* NetNet::~NetNet asserts eref_count_ == 0; NetNode::~NetNode calls del_node
\* if the node has a design_; NetObj::~NetObj deletes pins_.
DestroyNode(n) ==
    /\ pc = "idle"
    /\ n \in alive
    /\ op' = [name |-> "destroy", node |-> n]
    /\ pre' = Ring
    /\ IF IsSignal(n) /\ eref_count[n] # 0
       THEN /\ pc' = "abort"
            /\ UNCHANGED <<alive, next_, prev_, nodeRingVars, design_>>
       ELSE /\ pc' = "idle"
            /\ alive' = alive \ {n}
            /\ next_' = DeletePins(Ring, n, pin_count(n)).next_
            /\ prev_' = DeletePins(Ring, n, pin_count(n)).prev_
            /\ IF n \in NetNodes
               THEN LET d == IF design_[n] THEN del_node(NodeRing, n)
                                           ELSE NodeRing
                    IN  /\ nodes_' = d.head
                        /\ node_next_' = [d.next EXCEPT ![n] = NoNode]
                        /\ node_prev_' = [d.prev EXCEPT ![n] = NoNode]
                        /\ design_' = d.design
                        /\ node_order' = Without(node_order, n)
               ELSE UNCHANGED <<nodeRingVars, design_>>
    /\ UNCHANGED <<cl, cr, cur, erefVars>>
    /\ UNCHANGED <<nets, sigRingVars, mark_>>
    /\ UNCHANGED laterVars

\* NetObj::Link::unlink called on a live link.
Unlink(p) ==
    /\ pc = "idle"
    /\ p \in LivePins
    /\ next_' = unlink(Ring, p).next_
    /\ prev_' = unlink(Ring, p).prev_
    /\ op' = [name |-> "unlink", link |-> p]
    /\ pre' = Ring
    /\ UNCHANGED <<alive, pc, cl, cr, cur, erefVars>>
    /\ UNCHANGED otherVars

\* connect(l, r) up to the loop: the asserts, then cur = &l.  op.moves is
\* the sequence of the links that the loop has pulled out and put in.
ConnectBegin(l, r) ==
    /\ pc = "idle"
    /\ l \in LivePins
    /\ r \in LivePins
    /\ op' = [name |-> "connect", moves |-> <<>>]
    /\ cl' = l
    /\ cr' = r
    /\ pre' = Ring
    /\ IF ConnectEntryOk(Ring, l, r)
       THEN pc' = "connect_loop" /\ cur' = l
       ELSE pc' = "abort" /\ cur' = NoLink
    /\ UNCHANGED <<alive, next_, prev_, erefVars>>
    /\ UNCHANGED otherVars

\* One iteration of the do-while of connect.
ConnectIter ==
    /\ pc = "connect_loop"
    /\ LET tmp == next_[cur]
           moved == PutIn(PullOut(Ring, cur), cur, cr)
       IN  IF StumbledOnR(tmp, cr)
           THEN /\ pc' = "connect_exit"
                /\ UNCHANGED <<next_, prev_, cur>>
           ELSE /\ next_' = moved.next_
                /\ prev_' = moved.prev_
                /\ cur' = tmp
                /\ pc' = IF LoopAgain(tmp, cl) THEN "connect_loop"
                                               ELSE "connect_exit"
    /\ op' = IF StumbledOnR(next_[cur], cr)
             THEN op
             ELSE [op EXCEPT !.moves = Append(@, cur)]
    /\ UNCHANGED <<alive, cl, cr, pre, erefVars>>
    /\ UNCHANGED otherVars

\* The asserts after the loop, and the return.
ConnectReturn ==
    /\ pc = "connect_exit"
    /\ IF ConnectExitOk(Ring, cl, cr)
       THEN /\ pc' = "idle"
            /\ op' = [name |-> "none"]
            /\ cl' = NoLink
            /\ cr' = NoLink
            /\ cur' = NoLink
            /\ pre' = NoRing
       ELSE /\ pc' = "abort"
            /\ UNCHANGED <<op, cl, cr, cur, pre>>
    /\ UNCHANGED <<alive, next_, prev_, erefVars>>
    /\ UNCHANGED otherVars

InitNexus ==
    /\ alive = {}
    /\ next_ = [p \in Links |-> p]
    /\ prev_ = [p \in Links |-> p]
    /\ pc = "idle"
    /\ op = [name |-> "none"]
    /\ cl = NoLink
    /\ cr = NoLink
    /\ cur = NoLink
    /\ pre = NoRing

InitEref ==
    /\ eref_count = [s \in SignalNodes \cup NetNets |-> 0]
    /\ exprs = [e \in Exprs |-> [type |-> "free"]]
    /\ stmts = [a \in Stmts |-> [type |-> "free"]]
    /\ dup_call = [expr |-> NoExpr, result |-> NoExpr]

InitDesign ==
    /\ nets = {}
    /\ signals_ = NoSignal
    /\ sig_next_ = [n \in NetNets |-> NoSignal]
    /\ sig_prev_ = [n \in NetNets |-> NoSignal]
    /\ sig_order = <<>>
    /\ nodes_ = NoNode
    /\ node_next_ = [n \in NetNodes |-> NoNode]
    /\ node_prev_ = [n \in NetNodes |-> NoNode]
    /\ node_order = <<>>
    /\ design_ = [n \in NetNets \cup NetNodes |-> FALSE]
    /\ mark_ = [n \in NetNets \cup NetNodes |-> FALSE]

\* An empty map.
NoParameters == [k \in {} |-> NoExpr]

InitLater ==
    /\ parameters_ = NoParameters
    /\ procs = {}
    /\ proc_next_ = [p \in Procs |-> NoProc]
    /\ block_live = TRUE
    /\ last_ = NoProc
    /\ appended = <<>>
    /\ destroyed = [p \in Procs |-> 0]
    /\ ram_list_ = NoRam
    /\ ram_next_ = [r \in RamDqs |-> NoRam]
    /\ wires = 0
    /\ cm_ = [k \in {} |-> "x"]
    /\ fsm_ = [k \in {} |-> "x"]
    /\ rows = 0
    /\ errors = 0

\* No device.
NoDev == [kind |-> "none"]

\* The objects that carry attributes.
AttrObjs == {"A", "B"}

InitLast ==
    /\ dev = NoDev
    /\ attributes_ = [o \in AttrObjs |-> [k \in {} |-> ""]]
    /\ ram_this = NoRam
    /\ ram_cur = NoRam
    /\ ram_tmp = NoRam
    /\ ram_trace = <<>>

\* Design::Design leaves its maps empty and its list of processes null; no
\* system function call is being checked.
InitMaps ==
    /\ memories_ = [k \in {} |-> ""]
    /\ funcs_ = [k \in {} |-> ""]
    /\ tasks_ = [k \in {} |-> ""]
    /\ procs_ = NoTop
    /\ top_next_ = [t \in Tops |-> NoTop]
    /\ proc_log = <<>>
    /\ va_args = <<>>
    /\ va_argv = NoIter
    /\ va_msgs = <<>>
    /\ va_finish = FALSE
    /\ va_data = NoData

\* Design::Design gives procs_idx_ no value.  Where no operation reads the
\* cursor, the model starts it null.
InitFinal ==
    /\ InitMaps
    /\ procs_idx_ = NoTop

Init ==
    InitNexus /\ InitEref /\ InitDesign /\ InitLater /\ InitLast
    /\ InitFinal
    /\ wexprs = <<>>

(***************************************************************************)
(* Expressions and statements that hold a signal: NetESignal, NetEUnary    *)
(* over a subexpression, NetAssignMem_ with its index signal.              *)
(***************************************************************************)
Free == [type |-> "free"]

\* An expression that no live expression or statement holds.
IsRoot(e) ==
    /\ exprs[e] # Free
    /\ \A f \in Exprs : exprs[f].type = "NetEUnary" => exprs[f].expr_ # e
    /\ \A a \in Stmts : stmts[a] # Free => stmts[a].rval_ # e

incr_eref_forgotten(c, s) == c

\* NetNet::incr_eref
incr_eref(c, s) == [c EXCEPT ![s] = c[s] + 1]

decr_eref_unchecked(c, s) == TRUE

\* The assert of NetNet::decr_eref
decr_eref_ok(c, s) == c[s] > 0

\* NetNet::decr_eref past its assert
decr_eref(c, s) == [c EXCEPT ![s] = c[s] - 1]

\* delete e: NetEUnary::~NetEUnary deletes expr_, NetESignal::~NetESignal
\* calls decr_eref.  st.ok is FALSE once an assert has failed.
RECURSIVE delete_expr(_, _)
delete_expr(st, e) ==
    LET x == st.exprs[e]
    IN  IF x.type = "NetESignal"
        THEN IF decr_eref_ok(st.eref_count, x.net_)
             THEN [exprs |-> [st.exprs EXCEPT ![e] = Free],
                   eref_count |-> decr_eref(st.eref_count, x.net_),
                   ok |-> TRUE]
             ELSE [st EXCEPT !.ok = FALSE]
        ELSE delete_expr([st EXCEPT !.exprs[e] = Free], x.expr_)

\* new NetESignal(n)
NewESignal(e, s) ==
    /\ pc = "idle"
    /\ exprs[e] = Free
    /\ s \in SignalNodes \cap alive
    /\ exprs' = [exprs EXCEPT ![e] = [type |-> "NetESignal", net_ |-> s]]
    /\ eref_count' = incr_eref(eref_count, s)
    /\ op' = [name |-> "new_expr", expr |-> e]
    /\ UNCHANGED <<alive, next_, prev_, pc, cl, cr, cur, pre, stmts, dup_call>>
    /\ UNCHANGED otherVars

\* new NetEUnary(op, ex)
NewEUnary(e, ex) ==
    /\ pc = "idle"
    /\ exprs[e] = Free
    /\ IsRoot(ex)
    /\ exprs' = [exprs EXCEPT ![e] = [type |-> "NetEUnary", expr_ |-> ex]]
    /\ op' = [name |-> "new_expr", expr |-> e]
    /\ UNCHANGED <<alive, next_, prev_, pc, cl, cr, cur, pre, eref_count,
                   stmts, dup_call>>
    /\ UNCHANGED otherVars

\* delete of an expression by its owner.
DeleteExpr(e) ==
    /\ pc = "idle"
    /\ IsRoot(e)
    /\ LET st == delete_expr([exprs |-> exprs, eref_count |-> eref_count,
                              ok |-> TRUE], e)
       IN  IF st.ok
           THEN exprs' = st.exprs /\ eref_count' = st.eref_count /\ pc' = pc
           ELSE UNCHANGED <<exprs, eref_count>> /\ pc' = "abort"
    /\ op' = [name |-> "delete_expr", expr |-> e]
    /\ UNCHANGED <<alive, next_, prev_, cl, cr, cur, pre, stmts, dup_call>>
    /\ UNCHANGED otherVars

\* new NetAssignMem(m, i, r): NetAssignMem_::NetAssignMem_
NewAssignMem(a, i, r) ==
    /\ pc = "idle"
    /\ stmts[a] = Free
    /\ i \in SignalNodes \cap alive
    /\ IsRoot(r)
    /\ stmts' = [stmts EXCEPT
                    ![a] = [type |-> "NetAssignMem", index_ |-> i, rval_ |-> r]]
    /\ eref_count' = incr_eref(eref_count, i)
    /\ op' = [name |-> "new_stmt", stmt |-> a]
    /\ UNCHANGED <<alive, next_, prev_, pc, cl, cr, cur, pre, exprs, dup_call>>
    /\ UNCHANGED otherVars

\* delete of a NetAssignMem: NetAssignMem_::~NetAssignMem_ (rval_ is left)
DeleteAssignMem(a) ==
    /\ pc = "idle"
    /\ stmts[a] # Free
    /\ IF decr_eref_ok(eref_count, stmts[a].index_)
       THEN /\ stmts' = [stmts EXCEPT ![a] = Free]
            /\ eref_count' = decr_eref(eref_count, stmts[a].index_)
            /\ pc' = pc
       ELSE UNCHANGED <<stmts, eref_count>> /\ pc' = "abort"
    /\ op' = [name |-> "delete_stmt", stmt |-> a]
    /\ UNCHANGED <<alive, next_, prev_, cl, cr, cur, pre, exprs, dup_call>>
    /\ UNCHANGED otherVars

\* e->dup_expr(): NetESignal::dup_expr and NetEUnary::dup_expr are assert(0).
DupExpr(e) ==
    /\ pc = "idle"
    /\ exprs[e] # Free
    /\ dup_call' = [expr |-> e, result |-> NoExpr]
    /\ pc' = "abort"
    /\ op' = [name |-> "dup_expr", expr |-> e]
    /\ UNCHANGED <<alive, next_, prev_, cl, cr, cur, pre, eref_count, exprs,
                   stmts>>
    /\ UNCHANGED otherVars

NextEref ==
    \/ \E n \in SignalNodes : NewNode(n)
    \/ \E n \in SignalNodes : DestroyNode(n)
    \/ \E e \in Exprs : \E s \in SignalNodes : NewESignal(e, s)
    \/ \E e \in Exprs : \E ex \in Exprs : NewEUnary(e, ex)
    \/ \E e \in Exprs : DeleteExpr(e)
    \/ \E a \in Stmts : \E i \in SignalNodes : \E r \in Exprs :
           NewAssignMem(a, i, r)
    \/ \E a \in Stmts : DeleteAssignMem(a)
    \/ \E e \in Exprs : DupExpr(e)

\* Signals, and the expressions and statements that refer to them, are built
\* and destroyed.
SpecEref == Init /\ [][NextEref]_vars

NextNexus ==
    \/ \E n \in Nodes : NewNode(n)
    \/ \E n \in Nodes : DestroyNode(n)
    \/ \E p \in NexusLinks : Unlink(p)
    \/ \E l \in NexusLinks : \E r \in NexusLinks : ConnectBegin(l, r)
    \/ ConnectIter
    \/ ConnectReturn

\* The netlist as a graph of pins: nodes are built and destroyed, links are
\* connected and unlinked.
SpecNexus == Init /\ [][NextNexus]_vars

NextConnect ==
    \/ \E n \in Nodes : NewNode(n)
    \/ \E l \in NexusLinks : \E r \in NexusLinks : ConnectBegin(l, r)
    \/ ConnectIter
    \/ ConnectReturn

\* Nodes are built and their links are connected; a call of connect that has
\* begun runs on, as a C++ function does.
SpecConnect ==
    Init /\ [][NextConnect]_vars
    /\ WF_vars(ConnectIter) /\ WF_vars(ConnectReturn)

(***************************************************************************)
(* The Design: the ring of signals and the ring of nodes, the marks, and   *)
(* the searches over the rings.                                            *)
(***************************************************************************)
\* NetNet::NetNet: sig_next_(0), sig_prev_(0), design_(0), eref_count_(0);
\* NetObj::NetObj: mark_(false).
NewNet(n) ==
    /\ pc = "idle"
    /\ n \in NetNets \ nets
    /\ nets' = nets \cup {n}
    /\ sig_next_' = [sig_next_ EXCEPT ![n] = NoSignal]
    /\ sig_prev_' = [sig_prev_ EXCEPT ![n] = NoSignal]
    /\ design_' = [design_ EXCEPT ![n] = FALSE]
    /\ eref_count' = [eref_count EXCEPT ![n] = 0]
    /\ mark_' = [mark_ EXCEPT ![n] = FALSE]
    /\ op' = [name |-> "new_net", node |-> n]
    /\ UNCHANGED <<alive, next_, prev_, pc, cl, cr, cur, pre, exprs, stmts,
                   dup_call, signals_, sig_order, nodeRingVars>>
    /\ UNCHANGED laterVars

\* NetNet::~NetNet: assert(eref_count_ == 0), then del_signal if the signal
\* has a design_.
DestroyNet(n) ==
    /\ pc = "idle"
    /\ n \in nets
    /\ op' = [name |-> "destroy_net", node |-> n]
    /\ IF eref_count[n] # 0
       THEN /\ pc' = "abort"
            /\ UNCHANGED <<nets, sigRingVars, design_>>
       ELSE /\ pc' = "idle"
            /\ nets' = nets \ {n}
            /\ LET d == IF design_[n] THEN del_signal(SigRing, n) ELSE SigRing
               IN  /\ signals_' = d.head
                   /\ sig_next_' = [d.next EXCEPT ![n] = NoSignal]
                   /\ sig_prev_' = [d.prev EXCEPT ![n] = NoSignal]
                   /\ design_' = d.design
            /\ sig_order' = Without(sig_order, n)
    /\ UNCHANGED <<alive, next_, prev_, cl, cr, cur, pre, erefVars,
                   nodeRingVars, mark_>>
    /\ UNCHANGED laterVars

\* Design::add_signal(net)
AddSignal(n) ==
    /\ pc = "idle"
    /\ n \in nets
    /\ op' = [name |-> "add_signal", node |-> n]
    /\ IF design_[n]
       THEN /\ pc' = "abort"
            /\ UNCHANGED <<sigRingVars, design_>>
       ELSE /\ pc' = "idle"
            /\ signals_' = add_signal(SigRing, n).head
            /\ sig_next_' = add_signal(SigRing, n).next
            /\ sig_prev_' = add_signal(SigRing, n).prev
            /\ design_' = add_signal(SigRing, n).design
            /\ sig_order' = Append(sig_order, n)
    /\ UNCHANGED <<alive, next_, prev_, cl, cr, cur, pre, erefVars, nets,
                   nodeRingVars, mark_>>
    /\ UNCHANGED laterVars

\* Design::del_signal(net)
DelSignal(n) ==
    /\ pc = "idle"
    /\ n \in nets
    /\ op' = [name |-> "del_signal", node |-> n]
    /\ IF ~design_[n]
       THEN /\ pc' = "abort"
            /\ UNCHANGED <<sigRingVars, design_>>
       ELSE /\ pc' = "idle"
            /\ signals_' = del_signal(SigRing, n).head
            /\ sig_next_' = del_signal(SigRing, n).next
            /\ sig_prev_' = del_signal(SigRing, n).prev
            /\ design_' = del_signal(SigRing, n).design
            /\ sig_order' = Without(sig_order, n)
    /\ UNCHANGED <<alive, next_, prev_, cl, cr, cur, pre, erefVars, nets,
                   nodeRingVars, mark_>>
    /\ UNCHANGED laterVars

\* NetNet::incr_eref called on a live signal.
IncrEref(n) ==
    /\ pc = "idle"
    /\ n \in nets
    /\ eref_count[n] < MaxEref
    /\ op' = [name |-> "incr_eref", node |-> n]
    /\ eref_count' = incr_eref(eref_count, n)
    /\ UNCHANGED <<alive, next_, prev_, pc, cl, cr, cur, pre, exprs, stmts,
                   dup_call, otherVars>>

\* NetNet::decr_eref called on a live signal.
DecrEref(n) ==
    /\ pc = "idle"
    /\ n \in nets
    /\ op' = [name |-> "decr_eref", node |-> n]
    /\ IF decr_eref_ok(eref_count, n)
       THEN pc' = "idle" /\ eref_count' = decr_eref(eref_count, n)
       ELSE pc' = "abort" /\ UNCHANGED eref_count
    /\ UNCHANGED <<alive, next_, prev_, cl, cr, cur, pre, exprs, stmts,
                   dup_call, otherVars>>

NextSignals ==
    \/ \E n \in NetNets : NewNet(n)
    \/ \E n \in NetNets : DestroyNet(n)
    \/ \E n \in NetNets : AddSignal(n)
    \/ \E n \in NetNets : DelSignal(n)
    \/ \E n \in NetNets : IncrEref(n)
    \/ \E n \in NetNets : DecrEref(n)

\* Signals are built, registered with the Design, referenced, de-registered
\* and destroyed.
SpecSignals == Init /\ [][NextSignals]_vars

\* Design::add_node(net)
AddNode(n) ==
    /\ pc = "idle"
    /\ n \in NetNodes \cap alive
    /\ op' = [name |-> "add_node", node |-> n]
    /\ IF design_[n]
       THEN /\ pc' = "abort"
            /\ UNCHANGED <<nodeRingVars, design_>>
       ELSE /\ pc' = "idle"
            /\ nodes_' = add_node(NodeRing, n).head
            /\ node_next_' = add_node(NodeRing, n).next
            /\ node_prev_' = add_node(NodeRing, n).prev
            /\ design_' = add_node(NodeRing, n).design
            /\ node_order' = Append(node_order, n)
    /\ UNCHANGED <<alive, next_, prev_, cl, cr, cur, pre, erefVars, nets,
                   sigRingVars, mark_>>
    /\ UNCHANGED laterVars

\* Design::del_node(net)
DelNode(n) ==
    /\ pc = "idle"
    /\ n \in NetNodes \cap alive
    /\ op' = [name |-> "del_node", node |-> n]
    /\ IF ~design_[n]
       THEN /\ pc' = "abort"
            /\ UNCHANGED <<nodeRingVars, design_>>
       ELSE /\ pc' = "idle"
            /\ nodes_' = del_node(NodeRing, n).head
            /\ node_next_' = del_node(NodeRing, n).next
            /\ node_prev_' = del_node(NodeRing, n).prev
            /\ design_' = del_node(NodeRing, n).design
            /\ node_order' = Without(node_order, n)
    /\ UNCHANGED <<alive, next_, prev_, cl, cr, cur, pre, erefVars, nets,
                   sigRingVars, mark_>>
    /\ UNCHANGED laterVars

\* NetObj::set_mark(true), as a pass does it to an element that it has found
\* on a ring.
SetMark(n) ==
    /\ pc = "idle"
    /\ n \in nets \cup (NetNodes \cap alive)
    /\ design_[n]
    /\ ~mark_[n]
    /\ mark_' = [mark_ EXCEPT ![n] = TRUE]
    /\ op' = [name |-> "set_mark", node |-> n]
    /\ UNCHANGED <<alive, next_, prev_, pc, cl, cr, cur, pre, erefVars, nets,
                   sigRingVars, nodeRingVars, design_>>
    /\ UNCHANGED laterVars

\* The do-while loop of clear_signal_marks and of clear_node_marks: m is the
\* marks so far, c is cur.
RECURSIVE clear_marks_loop(_, _, _, _)
clear_marks_loop(d, m, c, fuel) ==
    LET m1 == [m EXCEPT ![c] = FALSE]
    IN  IF d.next[c] = d.head \/ fuel = 0
        THEN m1
        ELSE clear_marks_loop(d, m1, d.next[c], fuel - 1)

clear_marks_of_head(d, m) ==
    IF d.head \in {NoSignal, NoNode} THEN m ELSE [m EXCEPT ![d.head] = FALSE]

\* Design::clear_signal_marks and Design::clear_node_marks on their ring d.
clear_marks(d, m) ==
    IF d.head \in {NoSignal, NoNode}
    THEN m
    ELSE clear_marks_loop(d, m, d.head, Cardinality(DOMAIN m))

\* Design::clear_signal_marks()
ClearSignalMarks ==
    /\ pc = "idle"
    /\ mark_' = clear_marks(SigRing, mark_)
    /\ op' = [name |-> "clear_signal_marks"]
    /\ UNCHANGED <<alive, next_, prev_, pc, cl, cr, cur, pre, erefVars, nets,
                   sigRingVars, nodeRingVars, design_>>
    /\ UNCHANGED laterVars

\* Design::clear_node_marks()
ClearNodeMarks ==
    /\ pc = "idle"
    /\ mark_' = clear_marks(NodeRing, mark_)
    /\ op' = [name |-> "clear_node_marks"]
    /\ UNCHANGED <<alive, next_, prev_, pc, cl, cr, cur, pre, erefVars, nets,
                   sigRingVars, nodeRingVars, design_>>
    /\ UNCHANGED laterVars

\* The result of a walk that does not come back to where it started.
Diverges == [kind |-> "diverges", id |-> 0]

\* The do-while loop of find_signal and of find_node: func is the set of the
\* elements that the predicate accepts, c is cur.
RECURSIVE find_loop(_, _, _, _, _)
find_loop(d, m, func, c, fuel) ==
    IF ~m[c] /\ c \in func
    THEN c
    ELSE IF d.next[c] = d.next[d.head]
         THEN NoNode
         ELSE IF fuel = 0
              THEN Diverges
              ELSE find_loop(d, m, func, d.next[c], fuel - 1)

find_from_head(d, m, func) ==
    IF d.head \in {NoSignal, NoNode}
    THEN NoNode
    ELSE IF ~m[d.head] /\ d.head \in func THEN d.head ELSE NoNode

\* Design::find_signal and Design::find_node on their ring d.
find(d, m, func) ==
    IF d.head \in {NoSignal, NoNode}
    THEN NoNode
    ELSE find_loop(d, m, func, d.next[d.head], Cardinality(DOMAIN m))

\* Design::find_signal(func)
FindSignal(func) ==
    /\ pc = "idle"
    /\ op' = [name |-> "find_signal", func |-> func,
              result |-> find(SigRing, mark_, func)]
    /\ UNCHANGED <<alive, next_, prev_, pc, cl, cr, cur, pre, erefVars,
                   otherVars>>

\* Design::find_node(func)
FindNode(func) ==
    /\ pc = "idle"
    /\ op' = [name |-> "find_node", func |-> func,
              result |-> find(NodeRing, mark_, func)]
    /\ UNCHANGED <<alive, next_, prev_, pc, cl, cr, cur, pre, erefVars,
                   otherVars>>

NextDesign ==
    \/ \E n \in NetNets : NewNet(n)
    \/ \E n \in NetNets : DestroyNet(n)
    \/ \E n \in NetNets : AddSignal(n)
    \/ \E n \in NetNets : DelSignal(n)
    \/ \E n \in NetNodes : NewNode(n)
    \/ \E n \in NetNodes : DestroyNode(n)
    \/ \E n \in NetNodes : AddNode(n)
    \/ \E n \in NetNodes : DelNode(n)

\* Signals and nodes are built, registered with the Design, de-registered and
\* destroyed.
SpecDesign == Init /\ [][NextDesign]_vars

\* The same with the marks and the searches.  The Design of this specification
\* holds signals or nodes, never both at a time.
NextMarks ==
    \/ \E n \in NetNets : alive = {} /\ NewNet(n)
    \/ \E n \in NetNets : DestroyNet(n)
    \/ \E n \in NetNets : AddSignal(n)
    \/ \E n \in NetNets : DelSignal(n)
    \/ \E n \in NetNodes : nets = {} /\ NewNode(n)
    \/ \E n \in NetNodes : DestroyNode(n)
    \/ \E n \in NetNodes : AddNode(n)
    \/ \E n \in NetNodes : DelNode(n)
    \/ \E n \in NetNets \cup NetNodes : SetMark(n)
    \/ ClearSignalMarks
    \/ ClearNodeMarks
    \/ \E func \in SUBSET NetNets : FindSignal(func)
    \/ \E func \in SUBSET NetNodes : FindNode(func)

SpecMarks == Init /\ [][NextMarks]_vars

(***************************************************************************)
(* The parameters of the Design: set_parameter, find_parameter.  A string  *)
(* is the sequence of its characters.                                      *)
(***************************************************************************)
RECURSIVE StringsUpTo(_, _)
StringsUpTo(chars, n) ==
    IF n = 0
    THEN {<<>>}
    ELSE LET shorter == StringsUpTo(chars, n - 1)
         IN  shorter \cup {<<c>> \o w : c \in chars, w \in shorter}

\* The paths that find_parameter is called with and the names it looks for.
Paths == StringsUpTo({"a", "."}, MaxPathLen)
Names == {<<"K">>}

\* The keys that set_parameter is called with: a scope, a dot and the name K.
KeyScopes == {<<>>, <<"a">>, <<"a", ".", "a">>, <<"a", ".", "a", ".", "a">>}
Keys == {q \o <<".">> \o <<"K">> : q \in KeyScopes}

\* The expressions that parameters are bound to.
ParamExprs == {1, 2}

\* (unsigned) string::npos, which is above the length of every string.
npos == 2147483647

rfind_first(str, ch) ==
    LET at == {i \in 1..Len(str) : str[i] = ch}
    IN  IF at = {} THEN npos
        ELSE (CHOOSE i \in at : \A j \in at : j >= i) - 1

\* string::rfind(ch): the index, from 0, of the last ch of str, or npos.
rfind(str, ch) ==
    LET at == {i \in 1..Len(str) : str[i] = ch}
    IN  IF at = {} THEN npos
        ELSE (CHOOSE i \in at : \A j \in at : j <= i) - 1

\* string::substr(0, n)
substr0(str, n) == SubSeq(str, 1, n)

\* The for (;;) loop of Design::find_parameter, from the value of root.
RECURSIVE find_parameter_loop(_, _, _)
find_parameter_loop(params, root, name) ==
    LET fulname == root \o <<".">> \o name
        pos == rfind(root, ".")
    IN  IF fulname \in DOMAIN params
        THEN params[fulname]
        ELSE IF pos > Len(root)
             THEN NoExpr
             ELSE find_parameter_loop(params, substr0(root, pos), name)

\* Design::find_parameter(path, name)
find_parameter(params, path, name) == find_parameter_loop(params, path, name)

\* parameters_[key] = expr
set_parameter(params, key, expr) ==
    [k \in DOMAIN params \cup {key} |-> IF k = key THEN expr ELSE params[k]]

\* Design::set_parameter(key, expr)
SetParameter(key, expr) ==
    /\ pc = "idle"
    /\ parameters_' = set_parameter(parameters_, key, expr)
    /\ op' = [name |-> "set_parameter"]
    /\ UNCHANGED <<pc, exceptParameters>>

\* Design::find_parameter(path, name)
FindParameter(path, name) ==
    /\ pc = "idle"
    /\ op' = [name |-> "find_parameter", path |-> path, pname |-> name,
              result |-> find_parameter(parameters_, path, name)]
    /\ UNCHANGED <<alive, next_, prev_, pc, cl, cr, cur, pre, erefVars,
                   otherVars>>

NextParameters ==
    \/ \E key \in Keys : \E expr \in ParamExprs : SetParameter(key, expr)
    \/ \E path \in Paths : \E name \in Names : FindParameter(path, name)

\* Parameters are set and looked up.
SpecParameters == Init /\ [][NextParameters]_vars

(***************************************************************************)
(* A block of statements: NetProc, NetBlock::append, NetBlock::~NetBlock.  *)
(***************************************************************************)
BlockList == [last_ |-> last_, next_ |-> proc_next_]

append_keeps_last(b, c) ==
    IF b.last_ = NoProc
    THEN [last_ |-> c, next_ |-> [b.next_ EXCEPT ![c] = c]]
    ELSE LET t1 == [b EXCEPT !.next_[c] = b.next_[b.last_]]
         IN  [t1 EXCEPT !.next_[t1.last_] = c]

\* NetBlock::append(cur), statement by statement.
append(b, c) ==
    IF b.last_ = NoProc
    THEN [last_ |-> c, next_ |-> [b.next_ EXCEPT ![c] = c]]
    ELSE LET t1 == [b EXCEPT !.next_[c] = b.next_[b.last_]]
             t2 == [t1 EXCEPT !.next_[t1.last_] = c]
         IN  [t2 EXCEPT !.last_ = c]

\* NetProc::NetProc: next_(0)
NewProc(p) ==
    /\ pc = "idle"
    /\ p \in Procs \ procs
    /\ procs' = procs \cup {p}
    /\ proc_next_' = [proc_next_ EXCEPT ![p] = NoProc]
    /\ destroyed' = [destroyed EXCEPT ![p] = 0]
    /\ op' = [name |-> "new_proc", proc |-> p]
    /\ UNCHANGED <<pc, block_live, last_, appended, exceptBlock>>

\* NetProc::~NetProc, called by the owner of a statement that is in no live
\* block.
DestroyProc(p) ==
    /\ pc = "idle"
    /\ p \in procs
    /\ block_live => p \notin {appended[i] : i \in 1..Len(appended)}
    /\ procs' = procs \ {p}
    /\ proc_next_' = [proc_next_ EXCEPT ![p] = NoProc]
    /\ destroyed' = [destroyed EXCEPT ![p] = destroyed[p] + 1]
    /\ op' = [name |-> "destroy_proc", proc |-> p]
    /\ UNCHANGED <<pc, block_live, last_, appended, exceptBlock>>

\* NetBlock::NetBlock: last_(0)
NewBlock ==
    /\ pc = "idle"
    /\ ~block_live
    /\ block_live' = TRUE
    /\ last_' = NoProc
    /\ appended' = <<>>
    /\ op' = [name |-> "new_block"]
    /\ UNCHANGED <<pc, procs, proc_next_, destroyed, exceptBlock>>

\* NetBlock::append(cur) with a live statement that is in no block.
BlockAppend(c) ==
    /\ pc = "idle"
    /\ block_live
    /\ c \in procs
    /\ c \notin {appended[i] : i \in 1..Len(appended)}
    /\ last_' = append(BlockList, c).last_
    /\ proc_next_' = append(BlockList, c).next_
    /\ appended' = Append(appended, c)
    /\ op' = [name |-> "append", proc |-> c]
    /\ UNCHANGED <<pc, procs, block_live, destroyed, exceptBlock>>

\* The statements that NetBlock::~NetBlock destroys: its body is empty.
destroyed_by_block(b) == {}

\* NetBlock::~NetBlock, NetProc::~NetProc
DestroyBlock ==
    /\ pc = "idle"
    /\ block_live
    /\ block_live' = FALSE
    /\ procs' = procs \ destroyed_by_block(BlockList)
    /\ destroyed' = [p \in Procs |->
                        IF p \in destroyed_by_block(BlockList)
                        THEN destroyed[p] + 1
                        ELSE destroyed[p]]
    /\ op' = [name |-> "destroy_block"]
    /\ UNCHANGED <<pc, proc_next_, last_, appended, exceptBlock>>

NextBlock ==
    \/ \E p \in Procs : NewProc(p)
    \/ \E p \in Procs : DestroyProc(p)
    \/ NewBlock
    \/ \E p \in Procs : BlockAppend(p)
    \/ DestroyBlock

\* Statements are built and appended to a block, and the block and the
\* statements are destroyed.
SpecBlock == Init /\ [][NextBlock]_vars

(***************************************************************************)
(* The ports of a memory: NetRamDq and the list NetMemory::ram_list_,      *)
(* count_partners, absorb_partners.                                        *)
(***************************************************************************)
\* trace is the sequence of the connect calls and of the deletes of ports
\* that an operation makes.
RamState == [ring |-> Ring, alive |-> alive, ram_list_ |-> ram_list_,
             ram_next_ |-> ram_next_, ok |-> TRUE, trace |-> <<>>]

\* The tail of NetRamDq::NetRamDq: next_ = mem_->ram_list_;
\* mem_->ram_list_ = this.
ram_enlist(st, this) ==
    [st EXCEPT !.ram_next_[this] = st.ram_list_, !.ram_list_ = this]

\* The while loop of NetRamDq::~NetRamDq and the assignment after it; ok is
\* FALSE once an assert has failed.
RECURSIVE ram_unlist_loop(_, _, _, _)
ram_unlist_loop(st, this, c, fuel) ==
    IF c = NoRam \/ fuel = 0
    THEN [st EXCEPT !.ok = FALSE]
    ELSE IF st.ram_next_[c] = this
         THEN [st EXCEPT !.ram_next_[c] = st.ram_next_[this]]
         ELSE IF st.ram_next_[c] = NoRam
              THEN [st EXCEPT !.ok = FALSE]
              ELSE ram_unlist_loop(st, this, st.ram_next_[c], fuel - 1)

ram_unlist_head_only(st, this) ==
    IF st.ram_list_ = this
    THEN [st EXCEPT !.ram_list_ = st.ram_next_[this]]
    ELSE st

\* NetRamDq::~NetRamDq
ram_unlist(st, this) ==
    IF st.ram_list_ = this
    THEN [st EXCEPT !.ram_list_ = st.ram_next_[this]]
    ELSE ram_unlist_loop(st, this, st.ram_list_, Cardinality(RamDqs))

\* delete cur: NetRamDq::~NetRamDq, then NetObj::~NetObj deletes the pins.
delete_ramdq(st, c) ==
    LET s1 == ram_unlist(st, c)
    IN  IF ~s1.ok
        THEN s1
        ELSE [s1 EXCEPT !.ring = DeletePins(s1.ring, c, pin_count(c)),
                        !.alive = s1.alive \ {c},
                        !.ram_next_[c] = NoRam,
                        !.trace = Append(@, <<"delete", c>>)]

\* The for loop of NetRamDq::count_partners.
RECURSIVE count_partners_loop(_, _, _, _)
count_partners_loop(st, c, count, fuel) ==
    IF c = NoRam \/ fuel = 0
    THEN count
    ELSE count_partners_loop(st, st.ram_next_[c], count + 1, fuel - 1)

\* NetRamDq::count_partners
count_partners(st) ==
    count_partners_loop(st, st.ram_list_, 0, Cardinality(RamDqs) + 1)

\* "both pins are linked, and not to each other"
clash(h, p, q) ==
    /\ is_linked_at_all(h, p)
    /\ is_linked_at_all(h, q)
    /\ ~is_linked_link(h, p, q)

absorb_accepts_any_WE(h, this, c) ==
    /\ \A idx \in 0..(AWidth - 1) :
           is_linked_link(h, pin_Address(this, idx), pin_Address(c, idx))
    /\ ~clash(h, pin_InClock(this), pin_InClock(c))
    /\ ~clash(h, pin_OutClock(this), pin_OutClock(c))
    /\ \A idx \in 0..(Width - 1) :
           ~clash(h, pin_Data(this, idx), pin_Data(c, idx))
    /\ \A idx \in 0..(Width - 1) :
           ~clash(h, pin_Q(this, idx), pin_Q(c, idx))

\* The tests of NetRamDq::absorb_partners on cur: none of them continues.
absorb_accepts(h, this, c) ==
    /\ \A idx \in 0..(AWidth - 1) :
           is_linked_link(h, pin_Address(this, idx), pin_Address(c, idx))
    /\ ~clash(h, pin_InClock(this), pin_InClock(c))
    /\ ~clash(h, pin_OutClock(this), pin_OutClock(c))
    /\ ~clash(h, pin_WE(this), pin_WE(c))
    /\ \A idx \in 0..(Width - 1) :
           ~clash(h, pin_Data(this, idx), pin_Data(c, idx))
    /\ \A idx \in 0..(Width - 1) :
           ~clash(h, pin_Q(this, idx), pin_Q(c, idx))

absorb_wires_controls_only(this, c) ==
    <<<<pin_InClock(this), pin_InClock(c)>>,
      <<pin_OutClock(this), pin_OutClock(c)>>,
      <<pin_WE(this), pin_WE(c)>>>>

\* The connect calls of absorb_partners on cur, in their order.
absorb_wires(this, c) ==
    <<<<pin_InClock(this), pin_InClock(c)>>,
      <<pin_OutClock(this), pin_OutClock(c)>>,
      <<pin_WE(this), pin_WE(c)>>>>
    \o [i \in 1..AWidth |->
           <<pin_Address(this, i - 1), pin_Address(c, i - 1)>>]
    \o [i \in 1..(2 * Width) |->
           IF i % 2 = 1
           THEN <<pin_Data(this, (i - 1) \div 2), pin_Data(c, (i - 1) \div 2)>>
           ELSE <<pin_Q(this, (i - 2) \div 2), pin_Q(c, (i - 2) \div 2)>>]

RECURSIVE connect_all(_, _, _)
connect_all(st, ws, k) ==
    IF k > Len(ws) \/ ~st.ok
    THEN st
    ELSE LET c == connect(st.ring, ws[k][1], ws[k][2])
         IN  connect_all([st EXCEPT !.ring = c.ring, !.ok = c.ok,
                                    !.trace = Append(@, <<"connect", ws[k][1],
                                                          ws[k][2]>>)],
                         ws, k + 1)

\* The for loop of NetRamDq::absorb_partners, from the values of cur and tmp
\* at its test.
RECURSIVE absorb_loop(_, _, _, _, _)
absorb_loop(st, this, c, tmp, fuel) ==
    IF (c = NoRam /\ tmp = NoRam) \/ ~st.ok \/ fuel = 0
    THEN st
    ELSE IF c = NoRam
         THEN [st EXCEPT !.ok = FALSE]
         ELSE IF c = this \/ ~absorb_accepts(st.ring, this, c)
              THEN absorb_loop(st, this, st.ram_next_[c], NoRam, fuel - 1)
              ELSE LET s1 == connect_all(st, absorb_wires(this, c), 1)
                       t == s1.ram_next_[c]
                   IN  IF ~s1.ok
                       THEN s1
                       ELSE absorb_loop(delete_ramdq(s1, c), this, t, t,
                                        fuel - 1)

\* NetRamDq::absorb_partners
absorb_partners(st, this) ==
    absorb_loop(st, this, st.ram_list_, NoRam, Cardinality(RamDqs) + 1)

\* The ports of the list, from its head.
RECURSIVE RamListFrom(_, _, _)
RamListFrom(st, c, fuel) ==
    IF c = NoRam \/ fuel = 0
    THEN <<>>
    ELSE <<c>> \o RamListFrom(st, st.ram_next_[c], fuel - 1)

RamList == RamListFrom(RamState, ram_list_, Cardinality(RamDqs) + 1)

\* NetRamDq::NetRamDq
NewRamDq(r) ==
    /\ pc = "idle"
    /\ r \in RamDqs \ alive
    /\ alive' = alive \cup {r}
    /\ next_' = NewLinks(Ring, r).next_
    /\ prev_' = NewLinks(Ring, r).prev_
    /\ ram_list_' = ram_enlist(RamState, r).ram_list_
    /\ ram_next_' = ram_enlist(RamState, r).ram_next_
    /\ op' = [name |-> "new_ram", node |-> r]
    /\ pre' = NoRing
    /\ UNCHANGED <<pc, wires, exceptRam>>

\* delete of a NetRamDq
DestroyRamDq(r) ==
    /\ pc = "idle"
    /\ r \in RamDqs \cap alive
    /\ LET st == delete_ramdq(RamState, r)
       IN  /\ pc' = IF st.ok THEN "idle" ELSE "abort"
           /\ alive' = st.alive
           /\ next_' = st.ring.next_
           /\ prev_' = st.ring.prev_
           /\ ram_list_' = st.ram_list_
           /\ ram_next_' = st.ram_next_
    /\ op' = [name |-> "destroy_ram", node |-> r]
    /\ pre' = NoRing
    /\ UNCHANGED <<wires, exceptRam>>

\* connect(l, r), as the elaboration calls it to wire two pins.
RamConnect(l, r) ==
    /\ pc = "idle"
    /\ wires < MaxWires
    /\ l \in LivePins
    /\ r \in LivePins
    /\ wires' = wires + 1
    /\ LET c == connect(Ring, l, r)
       IN  /\ pc' = IF c.ok THEN "idle" ELSE "abort"
           /\ next_' = c.ring.next_
           /\ prev_' = c.ring.prev_
    /\ op' = [name |-> "connect"]
    /\ pre' = NoRing
    /\ UNCHANGED <<alive, ram_list_, ram_next_, exceptRam>>

\* NetRamDq::absorb_partners called on a live port.
AbsorbPartners(a) ==
    /\ pc = "idle"
    /\ a \in RamDqs \cap alive
    /\ LET st == absorb_partners(RamState, a)
       IN  /\ pc' = IF st.ok THEN "idle" ELSE "abort"
           /\ alive' = st.alive
           /\ next_' = st.ring.next_
           /\ prev_' = st.ring.prev_
           /\ ram_list_' = st.ram_list_
           /\ ram_next_' = st.ram_next_
    /\ op' = [name |-> "absorb_partners", node |-> a, list |-> RamList,
              trace |-> absorb_partners(RamState, a).trace]
    /\ pre' = Ring
    /\ UNCHANGED <<wires, exceptRam>>

\* The wires between the Address pins of two ports.
AddressWires ==
    {<<pin_Address(x, 0), pin_Address(y, 0)>> :
         x \in RamDqs, y \in RamDqs} \ {<<p, p>> : p \in Links}

NextRamList ==
    \/ \E r \in RamDqs : NewRamDq(r)
    \/ \E r \in RamDqs : DestroyRamDq(r)
    \/ \E w \in AddressWires : RamConnect(w[1], w[2])
    \/ \E a \in RamDqs : AbsorbPartners(a)

\* Ports of one memory are built, wired by their Address pins, absorbed and
\* destroyed.
SpecRamList == Init /\ [][NextRamList]_vars

\* absorb_partners up to the first test of its for loop:
\* cur = mem_->ram_list_, tmp = 0.
AbsorbBegin(a) ==
    /\ pc = "idle"
    /\ a \in RamDqs \cap alive
    /\ ram_this' = a
    /\ ram_cur' = ram_list_
    /\ ram_tmp' = NoRam
    /\ ram_trace' = <<>>
    /\ pc' = "absorb_loop"
    /\ op' = [name |-> "absorb_partners", node |-> a, list |-> RamList,
              trace |-> <<>>]
    /\ pre' = Ring
    /\ UNCHANGED <<alive, next_, prev_, ramVars, exceptSteps>>

\* "tmp = cur->next_; delete cur;": the next_ that is kept in tmp, given
\* next_ before and after the delete.
absorbed_next_late(before, after, c) == after[c]

absorbed_next(before, after, c) == before[c]

\* The test of the for loop of absorb_partners, and when it holds the body
\* and "cur = cur? cur->next_ : tmp": the state the iteration leaves.
absorb_step ==
    LET same == [pc |-> pc, alive |-> alive, next_ |-> next_, prev_ |-> prev_,
                 ram_list_ |-> ram_list_, ram_next_ |-> ram_next_,
                 cur |-> ram_cur, tmp |-> ram_tmp, trace |-> ram_trace]
    IN  IF ram_cur = NoRam /\ ram_tmp = NoRam
        THEN [same EXCEPT !.pc = "idle"]
        ELSE IF ram_cur = NoRam
        THEN [same EXCEPT !.pc = "abort"]
        ELSE IF ram_cur = ram_this
        THEN [same EXCEPT !.cur = ram_next_[ram_cur],
                          !.tmp = NoRam,
                          !.trace = Append(ram_trace, <<"next", ram_cur>>)]
        ELSE IF ~absorb_accepts(Ring, ram_this, ram_cur)
        THEN [same EXCEPT !.cur = ram_next_[ram_cur],
                          !.tmp = NoRam,
                          !.trace = ram_trace \o <<<<"examine", ram_cur>>,
                                                   <<"next", ram_cur>>>>]
        ELSE LET s1 == connect_all(RamState,
                                   absorb_wires(ram_this, ram_cur), 1)
                 s2 == delete_ramdq(s1, ram_cur)
                 t == absorbed_next(s1.ram_next_, s2.ram_next_, ram_cur)
             IN  [pc |-> IF s1.ok /\ s2.ok THEN pc ELSE "abort",
                  alive |-> s2.alive,
                  next_ |-> s2.ring.next_,
                  prev_ |-> s2.ring.prev_,
                  ram_list_ |-> s2.ram_list_,
                  ram_next_ |-> s2.ram_next_,
                  cur |-> t,
                  tmp |-> t,
                  trace |-> ram_trace \o <<<<"examine", ram_cur>>,
                                            <<"next", ram_cur>>,
                                            <<"delete", ram_cur>>>>]

AbsorbStep ==
    /\ pc = "absorb_loop"
    /\ \E s \in {absorb_step} :
          /\ pc' = s.pc
          /\ alive' = s.alive
          /\ next_' = s.next_
          /\ prev_' = s.prev_
          /\ ram_list_' = s.ram_list_
          /\ ram_next_' = s.ram_next_
          /\ ram_cur' = s.cur
          /\ ram_tmp' = s.tmp
          /\ ram_trace' = s.trace
    /\ UNCHANGED <<op, pre, ram_this, wires, exceptSteps>>

NextRamSteps ==
    \/ \E r \in RamDqs : NewRamDq(r)
    \/ \E w \in AddressWires : RamConnect(w[1], w[2])
    \/ \E a \in RamDqs : AbsorbBegin(a)
    \/ AbsorbStep

\* Weak fairness of AbsorbStep: a call of absorb_partners that is in its loop
\* goes on, as a running C++ function does. An iteration is possible exactly
\* when pc = "absorb_loop", and every iteration changes pc or ram_trace, so
\* this is WF_<<pc, ram_trace>>(AbsorbStep) with its ENABLED written as that
\* state predicate.
AbsorbGoesOn ==
    \/ []<>(pc # "absorb_loop")
    \/ []<><<AbsorbStep>>_<<pc, ram_trace>>

\* Ports of one memory are built and wired by their Address pins, and
\* absorb_partners runs one iteration of its loop at a time; a loop that has
\* begun goes on.
SpecRamSteps == Init /\ [][NextRamSteps]_vars /\ AbsorbGoesOn

\* The wires of two ports: pin to pin, and from each port to a net of its own
\* (a pin of the NetBUFZ b1).
PortWires ==
    {<<Link(ramA, k), Link(ramB, k)>> : k \in 0..(pin_count(ramA) - 1)}
    \cup {<<Link(ramA, k), Link(b1, 0)>> : k \in 0..(pin_count(ramA) - 1)}
    \cup {<<Link(ramB, k), Link(b1, 1)>> : k \in 0..(pin_count(ramB) - 1)}

NextRamAbsorb ==
    \/ \E r \in {ramA, ramB} : NewRamDq(r)
    \/ NewNode(b1)
    \/ \E w \in PortWires : RamConnect(w[1], w[2])
    \/ \E a \in {ramA, ramB} : AbsorbPartners(a)

\* Two ports of one memory are built and wired, and one absorbs the other.
SpecRamAbsorb == Init /\ [][NextRamAbsorb]_vars

(***************************************************************************)
(* The tables of a UDP: set_table, sequ_glob_, set_sequ_, find_state_.     *)
(* The model holds one combinational UDP of CombPins pins and one          *)
(* sequential UDP of SequPins pins.                                        *)
(***************************************************************************)
CombPins == 3
SequPins == 2

Levels == {"0", "1", "x"}
Edges == {"r", "R", "f", "F", "P", "N"}

\* A null state_t_*.
NoState == <<>>

\* new state_t_(pin_count()): every transition of every pin is null.
NewStateT(npins) ==
    [out |-> "x",
     pins |-> [i \in 0..(npins - 1) |->
                  [zer |-> NoState, one |-> NoState, xxx |-> NoState]]]

\* NetUDP::find_state_(str): the table after the call; the state found or
\* made is the one of key str.
find_state_(fsm, str) ==
    IF str \in DOMAIN fsm
    THEN fsm
    ELSE [k \in DOMAIN fsm \cup {str} |->
             IF k = str
             THEN [NewStateT(SequPins) EXCEPT !.out = str[1]]
             ELSE fsm[k]]

\* string::find_first_not_of("01x") and string::find_last_not_of("01x"),
\* from 0.
find_first_not_of(str, set) ==
    LET at == {i \in 1..Len(str) : str[i] \notin set}
    IN  IF at = {} THEN npos
        ELSE (CHOOSE i \in at : \A j \in at : j >= i) - 1

find_last_not_of(str, set) ==
    LET at == {i \in 1..Len(str) : str[i] \notin set}
    IN  IF at = {} THEN npos
        ELSE (CHOOSE i \in at : \A j \in at : j <= i) - 1

\* The switch of set_sequ_ on input[edge]: the level before the edge and the
\* level after it.
EdgeFrom(c) ==
    IF c \in {"r", "P"} THEN "0"
    ELSE IF c \in {"f", "N"} THEN "1"
    ELSE "x"

EdgeTo_is_source(c) == EdgeFrom(c)

EdgeTo(c) ==
    IF c \in {"r", "R"} THEN "1"
    ELSE IF c \in {"f", "F"} THEN "0"
    ELSE "x"

\* The member of pins[edge] that the switch on to[edge] selects.
SlotOf(level) ==
    IF level = "0" THEN "zer" ELSE IF level = "1" THEN "one" ELSE "xxx"

slot_overwrite(fsm, frm, edge, level, to) ==
    [fsm |-> [fsm EXCEPT ![frm].pins[edge][SlotOf(level)] = to], ok |-> TRUE]

\* "if (sfrm->pins[edge].zer != sto) { assert(... == 0); ... = sto; }"
slot_set(fsm, frm, edge, level, to) ==
    LET old == fsm[frm].pins[edge][SlotOf(level)]
    IN  IF old = to
        THEN [fsm |-> fsm, ok |-> TRUE]
        ELSE IF old # NoState
             THEN [fsm |-> fsm, ok |-> FALSE]
             ELSE [fsm |-> [fsm EXCEPT ![frm].pins[edge][SlotOf(level)] = to],
                   ok |-> TRUE]

\* NetUDP::set_sequ_(input, output).  A row without an edge makes edge the
\* truncation of npos: the assert fails or input[edge] is read out of bounds,
\* and either way the call does not come back (ok is FALSE).
set_sequ_(fsm, input, output) ==
    LET out == IF output = "-" THEN input[1] ELSE output
        edge == find_first_not_of(input, Levels)
    IN  IF edge = npos \/ find_last_not_of(input, Levels) # edge
        THEN [fsm |-> fsm, ok |-> FALSE]
        ELSE IF input[edge + 1] \notin Edges
             THEN [fsm |-> fsm, ok |-> FALSE]
             ELSE LET to0 == [input EXCEPT ![1] = out]
                      frm == [input EXCEPT ![edge + 1] = EdgeFrom(input[edge + 1])]
                      to == [to0 EXCEPT ![edge + 1] = EdgeTo(input[edge + 1])]
                      f1 == find_state_(fsm, frm)
                      f2 == find_state_(f1, to)
                  IN  slot_set(f2, frm, edge, to[edge + 1], to)

\* The characters that sequ_glob_ expands, each with its expansions in the
\* order of the calls.
GlobOf(c) ==
    IF c = "?" THEN <<"0", "1", "x">>
    ELSE IF c = "n" THEN <<"f", "F", "N">>
    ELSE IF c = "p" THEN <<"r", "R", "P">>
    ELSE IF c = "_" THEN <<"f", "F">>
    ELSE IF c = "*" THEN <<"r", "R", "f", "F", "P", "N">>
    ELSE <<>>

\* NetUDP::sequ_glob_(input, output): the for loop from idx, and the calls
\* of one expansion from the k-th on.
RECURSIVE sequ_glob_(_, _, _, _)
RECURSIVE sequ_glob_calls(_, _, _, _, _)
sequ_glob_(st, input, output, idx) ==
    IF ~st.ok
    THEN st
    ELSE IF idx > Len(input)
         THEN set_sequ_(st.fsm, input, output)
         ELSE IF input[idx] \in Levels \cup Edges
              THEN sequ_glob_(st, input, output, idx + 1)
              ELSE IF GlobOf(input[idx]) = <<>>
                   THEN [st EXCEPT !.ok = FALSE]
                   ELSE sequ_glob_calls(st, input, output, idx, 1)

sequ_glob_calls_first_only(st, input, output, idx, k) ==
    IF ~st.ok \/ k > 1
    THEN st
    ELSE sequ_glob_calls(
             sequ_glob_(st, [input EXCEPT ![idx] = GlobOf(input[idx])[k]],
                        output, 1),
             input, output, idx, k + 1)

sequ_glob_calls(st, input, output, idx, k) ==
    IF ~st.ok \/ k > Len(GlobOf(input[idx]))
    THEN st
    ELSE sequ_glob_calls(
             sequ_glob_(st, [input EXCEPT ![idx] = GlobOf(input[idx])[k]],
                        output, 1),
             input, output, idx, k + 1)

\* NetUDP::set_table(input, output) on the sequential UDP.
set_table_sequ(fsm, input, output) ==
    IF output \notin {"0", "1", "-"} \/ Len(input) # SequPins
    THEN [fsm |-> fsm, ok |-> FALSE]
    ELSE sequ_glob_([fsm |-> fsm, ok |-> TRUE], input, output, 1)

\* NetUDP::set_table(input, output) on the combinational UDP.
set_table_comb(cm, input, output) ==
    IF output \notin {"0", "1"} \/ Len(input) # CombPins - 1
    THEN [cm |-> cm, ok |-> FALSE]
    ELSE [cm |-> [k \in DOMAIN cm \cup {input} |->
                     IF k = input THEN output ELSE cm[k]],
          ok |-> TRUE]

\* The rows given to the combinational UDP: every row of its length over
\* 0, 1, x and ?, a shorter row and a longer one.
CombRows ==
    {<<a, b>> : a \in Levels \cup {"?"}, b \in Levels \cup {"?"}}
    \cup {<<"0">>, <<"0", "1", "x">>}

\* The rows given to the sequential UDP: a level and then an edge, an edge
\* and then the level 0, some rows with a wildcard, a row without an edge,
\* a row with two edges and a shorter row.
SequRows ==
    {<<a, b>> : a \in Levels, b \in Edges}
    \cup {<<b, "0">> : b \in Edges}
    \cup {<<"?", "r">>, <<"0", "p">>, <<"0", "0">>, <<"r", "f">>, <<"0">>}

Outputs == {"0", "1", "-", "x"}

\* set_table on the combinational UDP
SetTableComb(input, output) ==
    /\ pc = "idle"
    /\ rows < MaxRows
    /\ rows' = rows + 1
    /\ LET r == set_table_comb(cm_, input, output)
       IN  /\ cm_' = r.cm
           /\ pc' = IF r.ok THEN "idle" ELSE "abort"
    /\ op' = [name |-> "set_table", input |-> input, output |-> output,
              before |-> cm_]
    /\ UNCHANGED <<fsm_, errors, exceptUdp>>

\* set_table on the sequential UDP
SetTableSequ(input, output) ==
    /\ pc = "idle"
    /\ rows < MaxRows
    /\ rows' = rows + 1
    /\ LET r == set_table_sequ(fsm_, input, output)
       IN  /\ fsm_' = r.fsm
           /\ pc' = IF r.ok THEN "idle" ELSE "abort"
    /\ op' = [name |-> "set_table", input |-> input, output |-> output,
              before |-> fsm_]
    /\ UNCHANGED <<cm_, errors, exceptUdp>>

NextUdpComb ==
    \E input \in CombRows : \E output \in Outputs : SetTableComb(input, output)

\* Rows are set on the combinational UDP.
SpecUdpComb == Init /\ [][NextUdpComb]_vars

NextUdpSequ ==
    \E input \in SequRows : \E output \in Outputs : SetTableSequ(input, output)

\* Rows are set on the sequential UDP.
SpecUdpSequ == Init /\ [][NextUdpSequ]_vars

\* Rows with wildcards given to the sequential UDP: one wildcard, a level
\* wildcard and an edge wildcard in either order, two edge wildcards, and
\* a ground row.
GlobRows ==
    {<<"?", "r">>, <<"0", "p">>, <<"?", "p">>, <<"?", "*">>, <<"_", "?">>,
     <<"n", "1">>, <<"p", "*">>, <<"0", "r">>}

NextUdpGlob ==
    \E input \in GlobRows : \E output \in Outputs : SetTableSequ(input, output)

\* Rows with wildcards are set on the sequential UDP.
SpecUdpGlob == Init /\ [][NextUdpGlob]_vars

\* The first loop of cleanup_table on one slot: a transition to a state whose
\* output is x is set to null.
slot_kept(fsm, v) == v

slot_cleaned(fsm, v) ==
    IF v # NoState /\ fsm[v].out = "x" THEN NoState ELSE v

\* The first loop of NetUDP::cleanup_table.
cleanup_slots(fsm) ==
    [k \in DOMAIN fsm |->
        [fsm[k] EXCEPT !.pins =
            [pin \in 0..(SequPins - 1) |->
                [zer |-> slot_cleaned(fsm, fsm[k].pins[pin].zer),
                 one |-> slot_cleaned(fsm, fsm[k].pins[pin].one),
                 xxx |-> slot_cleaned(fsm, fsm[k].pins[pin].xxx)]]]]

\* The test of the second loop: the state has an outgoing transition.
has_transition(st) ==
    \E pin \in 0..(SequPins - 1) :
        \/ st.pins[pin].zer # NoState
        \/ st.pins[pin].one # NoState
        \/ st.pins[pin].xxx # NoState

\* The second loop of NetUDP::cleanup_table: fsm_.erase of the states whose
\* output is x and that have no transition.
cleanup_erase(fsm) ==
    LET keep == {k \in DOMAIN fsm :
                    fsm[k].out # "x" \/ has_transition(fsm[k])}
    IN  [k \in keep |-> fsm[k]]

\* NetUDP::cleanup_table(); the assert of the first loop is on every state.
cleanup_table(fsm) ==
    IF \E k \in DOMAIN fsm : k[1] # fsm[k].out
    THEN [fsm |-> fsm, ok |-> FALSE]
    ELSE [fsm |-> cleanup_erase(cleanup_slots(fsm)), ok |-> TRUE]

\* cleanup_table on the sequential UDP
CleanupTable ==
    /\ pc = "idle"
    /\ LET r == cleanup_table(fsm_)
       IN  /\ fsm_' = r.fsm
           /\ pc' = IF r.ok THEN "idle" ELSE "abort"
    /\ op' = [name |-> "cleanup_table", before |-> fsm_]
    /\ UNCHANGED <<cm_, rows, errors, exceptUdp>>

\* The rows of the tables that are cleaned up: a level and then one of three
\* edges, and two rows with a wildcard.
CleanupRows ==
    {<<a, b>> : a \in Levels, b \in {"r", "f", "P"}}
    \cup {<<"?", "r">>, <<"0", "p">>}

NextUdpCleanup ==
    \/ \E input \in CleanupRows : \E output \in {"0", "1", "-"} :
          SetTableSequ(input, output)
    \/ CleanupTable

\* Rows are set on the sequential UDP and its table is cleaned up.
SpecUdpCleanup == Init /\ [][NextUdpCleanup]_vars

\* "return next? next->out : 'x'"
lookup_out_unset(fsm, next) == "x"

lookup_out(fsm, next) ==
    IF next = NoState THEN "x" ELSE fsm[next].out

\* NetUDP::table_lookup(from, to, pin): the set of its outcomes, a level or
\* "abort".  The first assert lets pin == pin_count() through; pins[pin] is
\* then read past the end of the array and the call can give any level or
\* crash.
table_lookup(fsm, from, to, pin) ==
    IF pin > SequPins \/ Len(from) # SequPins
    THEN {"abort"}
    ELSE IF from \notin DOMAIN fsm
         THEN {"x"}
         ELSE IF to \notin Levels
              THEN {"abort"}
              ELSE IF pin = SequPins
                   THEN Levels \cup {"abort"}
                   ELSE {lookup_out(fsm, fsm[from].pins[pin][SlotOf(to)])}

\* The last set_table call, for a table_lookup that comes after it.
LastSet == IF op.name = "table_lookup" THEN op.after ELSE op

\* table_lookup on the sequential UDP
TableLookup(from, to, pin) ==
    /\ pc = "idle"
    /\ \E res \in table_lookup(fsm_, from, to, pin) :
          /\ pc' = IF res = "abort" THEN "abort" ELSE "idle"
          /\ op' = [name |-> "table_lookup", from |-> from, to |-> to,
                    pin |-> pin, result |-> res, after |-> LastSet]
    /\ UNCHANGED <<udpVars, exceptUdp>>

\* The rows of the tables that are looked up: an edge on the input pin and
\* an edge at the place of the current output.
LookupRows == {<<"0", "r">>, <<"x", "F">>, <<"r", "0">>}

\* The from arguments of table_lookup.
LookupKeys == {<<"0", "0">>, <<"x", "x">>, <<"0", "1">>, <<"0">>}

NextUdpLookup ==
    \/ \E input \in LookupRows : \E output \in {"0", "1", "-"} :
          SetTableSequ(input, output)
    \/ \E from \in LookupKeys : \E to \in Levels \cup {"?"} :
          \E pin \in 0..(SequPins + 1) : TableLookup(from, to, pin)

\* Rows are set on the sequential UDP and transitions are looked up.
SpecUdpLookup == Init /\ [][NextUdpLookup]_vars

(***************************************************************************)
(* The width of an expression as its constructor sets it: NetEConst,       *)
(* NetEBComp, NetEBLogic, NetEBShift, NetESubSignal, NetETernary,          *)
(* NetEUnary, and NetEConcat with NetEConcat::set.                         *)
(***************************************************************************)
\* val.len() of the constants.
ConstLens == {1, 2}

\* The operators of NetEUnary: the seven of the switch, and ~ and -.
UnaryOps == {"!", "&", "|", "^", "A", "N", "X", "~", "-"}

\* parms_.count() and repeat_ of the concatenations.
ConcatCounts == {1, 2}
ConcatRepeats == {1, 2}

\* An expression: args are its operands, for a NetEConcat parms_ with NoExpr
\* for a null.
WExpr(type, o, w, args, repeat) ==
    [type |-> type, op |-> o, width |-> w, args |-> args, repeat |-> repeat]

expr_width(e) == wexprs[e].width

\* The width that NetEUnary::NetEUnary sets.
unary_width(o, w) ==
    IF o \in {"!", "&", "|", "^", "A", "N", "X"} THEN 1 ELSE w

\* The width after NetEConcat::set(idx, e).
concat_set_width_once(w, repeat, ew) == w + ew

concat_set_width(w, repeat, ew) == w + repeat * ew

\* The expressions whose construction is finished: all but a NetEConcat with
\* a null in parms_.
Finished ==
    {e \in 1..Len(wexprs) :
        wexprs[e].type = "NetEConcat"
            => \A i \in 1..Len(wexprs[e].args) : wexprs[e].args[i] # NoExpr}

\* The expressions of wexprs that are of the given types.
OfTypes(types) == {e \in 1..Len(wexprs) : wexprs[e].type \in types}

\* A constructor has run: the new expression is the last of wexprs.
Built(x, name) ==
    /\ pc = "idle"
    /\ Cardinality(1..Len(wexprs) \ OfTypes({"NetEConst"})) < MaxWExprs
    /\ wexprs' = Append(wexprs, x)
    /\ op' = [name |-> name, expr |-> Len(wexprs) + 1]
    /\ UNCHANGED <<pc, dev, attributes_, stepVars, exceptLast>>

\* new NetEConst(val): the width is val.len().
NetEConst(len) == WExpr("NetEConst", "", len, <<>>, 0)

\* The operands to start from: two constants of different lengths.
InitWidths ==
    /\ InitNexus /\ InitEref /\ InitDesign /\ InitLater /\ InitLast
    /\ InitFinal
    /\ \E a \in ConstLens : \E b \in ConstLens \ {a} :
          wexprs = <<NetEConst(a), NetEConst(b)>>

\* new NetEBComp(op, l, r)
NewEBComp(o, l, r) ==
    Built(WExpr("NetEBComp", o, 1, <<l, r>>, 0), "NetEBComp")

\* new NetEBLogic(op, l, r)
NewEBLogic(o, l, r) ==
    Built(WExpr("NetEBLogic", o, 1, <<l, r>>, 0), "NetEBLogic")

\* new NetEBShift(op, l, r)
NewEBShift(o, l, r) ==
    Built(WExpr("NetEBShift", o, expr_width(l), <<l, r>>, 0), "NetEBShift")

\* new NetESubSignal(sig, ex); sig is a NetESignal that the constructor only
\* stores.
NewESubSignal(ex) ==
    Built(WExpr("NetESubSignal", "", 1, <<ex>>, 0), "NetESubSignal")

\* new NetETernary(c, t, f)
NewETernary(c, t, f) ==
    Built(WExpr("NetETernary", "", expr_width(t), <<c, t, f>>, 0),
          "NetETernary")

\* new NetEUnary(op, ex)
NewWEUnary(o, ex) ==
    Built(WExpr("NetEUnary", o, unary_width(o, expr_width(ex)), <<ex>>, 0),
          "NetEUnary")

\* new NetEConcat(cnt, r)
NewEConcat(cnt, r) ==
    Built(WExpr("NetEConcat", "", 0, [i \in 1..cnt |-> NoExpr], r),
          "NetEConcat")

\* c->set(idx, e) on a NetEConcat
ConcatSet(c, idx, e) ==
    /\ pc = "idle"
    /\ wexprs[c].type = "NetEConcat"
    /\ IF idx < Len(wexprs[c].args) /\ wexprs[c].args[idx + 1] = NoExpr
       THEN /\ wexprs' =
                 [wexprs EXCEPT ![c].args[idx + 1] = e,
                                ![c].width =
                                    concat_set_width(@, wexprs[c].repeat,
                                                     expr_width(e))]
            /\ pc' = pc
       ELSE /\ pc' = "abort"
            /\ UNCHANGED wexprs
    /\ op' = [name |-> "NetEConcat::set", expr |-> c, idx |-> idx, e |-> e]
    /\ UNCHANGED <<dev, attributes_, stepVars, exceptLast>>

NextWidths ==
    \/ \E l \in Finished : \E r \in Finished :
          \/ NewEBComp("<", l, r)
          \/ NewEBLogic("a", l, r)
          \/ NewEBShift("l", l, r)
    \/ \E ex \in Finished : NewESubSignal(ex)
    \/ \E c \in Finished : \E t \in Finished : \E f \in Finished :
          NewETernary(c, t, f)
    \/ \E o \in UnaryOps : \E ex \in Finished : NewWEUnary(o, ex)
    \/ \E cnt \in ConcatCounts : \E r \in ConcatRepeats : NewEConcat(cnt, r)
    \/ \E c \in 1..Len(wexprs) : \E idx \in 0..2 : \E e \in Finished :
          ConcatSet(c, idx, e)

\* Expressions are built and the parts of concatenations are set.
SpecWidths == InitWidths /\ [][NextWidths]_vars

(***************************************************************************)
(* The pins of the devices: NetFF, NetAddSub, NetCLShift, NetCompare,      *)
(* NetMux and NetRamDq.  An accessor gives the index it hands to pin(), or *)
(* NoPin when an assert of the accessor fails.                             *)
(***************************************************************************)
NoPin == -1

\* npins_ as the constructor of the device hands it to NetNode.
dev_pin_count(d) ==
    CASE d.kind = "NetFF" -> 8 + 2 * d.w
      [] d.kind = "NetAddSub" -> d.w * 3 + 6
      [] d.kind = "NetCLShift" -> 3 + 2 * d.w + d.wd
      [] d.kind = "NetCompare" -> 8 + 2 * d.w
      [] d.kind = "NetMux" -> 2 + d.w + d.sw + d.w * d.s
      [] d.kind = "NetRamDq" -> 3 + 2 * d.w + d.awid

\* pin(idx) when the accessor has no assert of its own: an index that is not
\* below npins_ is not a pin.
checked(d, pn) == IF pn < dev_pin_count(d) THEN pn ELSE NoPin

\* The accessors of NetFF.
NetFF_pin(d, role, i) ==
    CASE role = "Clock" -> 0
      [] role = "Enable" -> 1
      [] role = "Aload" -> 2
      [] role = "Aset" -> 3
      [] role = "Aclr" -> 4
      [] role = "Sload" -> 5
      [] role = "Sset" -> 6
      [] role = "Sclr" -> 7
      [] role = "Data" -> checked(d, 8 + 2 * i)
      [] role = "Q" -> checked(d, 9 + i * 2)

\* The accessors of NetAddSub, and the pins that its constructor names.
NetAddSub_pin(d, role, i) ==
    CASE role = "Add_Sub" -> 0
      [] role = "Aclr" -> 1
      [] role = "Clock" -> 2
      [] role = "Cin" -> 3
      [] role = "Cout" -> 4
      [] role = "Overflow" -> 5
      [] role = "DataA" -> checked(d, 6 + i * 3)
      [] role = "DataB" -> checked(d, 7 + i * 3)
      [] role = "Result" -> checked(d, 8 + i * 3)

\* The accessors of NetCLShift.
NetCLShift_pin(d, role, i) ==
    CASE role = "Direction" -> 0
      [] role = "Underflow" -> 1
      [] role = "Overflow" -> 2
      [] role = "Data" -> IF i < d.w THEN 3 + i ELSE NoPin
      [] role = "Result" -> IF i < d.w THEN 3 + d.w + i ELSE NoPin
      [] role = "Distance" -> IF i < d.wd THEN 3 + 2 * d.w + i ELSE NoPin

\* The accessors of NetCompare.
NetCompare_pin(d, role, i) ==
    CASE role = "Aclr" -> 0
      [] role = "Clock" -> 1
      [] role = "AGB" -> 2
      [] role = "AGEB" -> 3
      [] role = "AEB" -> 4
      [] role = "ANEB" -> 5
      [] role = "ALB" -> 6
      [] role = "ALEB" -> 7
      [] role = "DataA" -> checked(d, 8 + i)
      [] role = "DataB" -> checked(d, 8 + d.w + i)

\* The accessors of NetMux; j is the input of pin_Data(w, s).
NetMux_pin_Data_by_size(d, i, j) ==
    IF i < d.w /\ j < d.s THEN 2 + d.w + d.sw + i * d.s + j ELSE NoPin

NetMux_pin_Data(d, i, j) ==
    IF i < d.w /\ j < d.s THEN 2 + d.w + d.sw + j * d.w + i ELSE NoPin

NetMux_pin(d, role, i, j) ==
    CASE role = "Aclr" -> 0
      [] role = "Clock" -> 1
      [] role = "Result" -> IF i < d.w THEN 2 + i ELSE NoPin
      [] role = "Sel" -> IF i < d.sw THEN 2 + d.w + i ELSE NoPin
      [] role = "Data" -> NetMux_pin_Data(d, i, j)

\* The accessors of NetRamDq.
NetRamDq_pin(d, role, i) ==
    CASE role = "InClock" -> 0
      [] role = "OutClock" -> 1
      [] role = "WE" -> 2
      [] role = "Address" -> IF i < d.awid THEN 3 + i ELSE NoPin
      [] role = "Data" -> IF i < d.w THEN 3 + d.awid + i ELSE NoPin
      [] role = "Q" -> IF i < d.w THEN 3 + d.awid + d.w + i ELSE NoPin

\* The roles of a device: those of one pin, and those of a vector of pins.
FixedRoles(d) ==
    CASE d.kind = "NetFF" ->
            {"Clock", "Enable", "Aload", "Aset", "Aclr", "Sload", "Sset",
             "Sclr"}
      [] d.kind = "NetAddSub" ->
            {"Add_Sub", "Aclr", "Clock", "Cin", "Cout", "Overflow"}
      [] d.kind = "NetCLShift" -> {"Direction", "Underflow", "Overflow"}
      [] d.kind = "NetCompare" ->
            {"Aclr", "Clock", "AGB", "AGEB", "AEB", "ANEB", "ALB", "ALEB"}
      [] d.kind = "NetMux" -> {"Aclr", "Clock"}
      [] d.kind = "NetRamDq" -> {"InClock", "OutClock", "WE"}

VectorRoles(d) ==
    CASE d.kind = "NetFF" -> {"Data", "Q"}
      [] d.kind = "NetAddSub" -> {"DataA", "DataB", "Result"}
      [] d.kind = "NetCLShift" -> {"Data", "Result", "Distance"}
      [] d.kind = "NetCompare" -> {"DataA", "DataB"}
      [] d.kind = "NetMux" -> {"Result", "Sel", "Data"}
      [] d.kind = "NetRamDq" -> {"Address", "Data", "Q"}

\* The accessor of device d for a role.
dev_pin(d, role, i, j) ==
    CASE d.kind = "NetFF" -> NetFF_pin(d, role, i)
      [] d.kind = "NetAddSub" -> NetAddSub_pin(d, role, i)
      [] d.kind = "NetCLShift" -> NetCLShift_pin(d, role, i)
      [] d.kind = "NetCompare" -> NetCompare_pin(d, role, i)
      [] d.kind = "NetMux" -> NetMux_pin(d, role, i, j)
      [] d.kind = "NetRamDq" -> NetRamDq_pin(d, role, i)

DevWidths == 0..MaxDevWidth

\* The devices that are built.
Devices ==
    {[kind |-> k, w |-> w] : k \in {"NetFF", "NetAddSub", "NetCompare"},
                              w \in DevWidths}
    \cup {[kind |-> "NetCLShift", w |-> w, wd |-> wd] :
             w \in DevWidths, wd \in DevWidths}
    \cup {[kind |-> "NetMux", w |-> w, s |-> sz, sw |-> sw] :
             w \in DevWidths, sz \in DevWidths, sw \in DevWidths}
    \cup {[kind |-> "NetRamDq", w |-> w, awid |-> a] :
             w \in DevWidths, a \in DevWidths}

\* new NetFF(n, wid) and the constructors of the other devices
NewDevice(d) ==
    /\ pc = "idle"
    /\ dev = NoDev
    /\ dev' = d
    /\ op' = [name |-> "NewDevice"]
    /\ UNCHANGED <<pc, wexprs, attributes_, stepVars, exceptLast>>

\* A call of the accessor of a role on the device.
CallPin(role, i, j) ==
    /\ pc = "idle"
    /\ dev # NoDev
    /\ role \in FixedRoles(dev) \cup VectorRoles(dev)
    /\ op' = [name |-> "pin", role |-> role, i |-> i, j |-> j,
              result |-> dev_pin(dev, role, i, j)]
    /\ pc' = IF dev_pin(dev, role, i, j) = NoPin THEN "abort" ELSE "idle"
    /\ UNCHANGED <<lastVars, exceptLast>>

AllRoles == UNION {FixedRoles(d) \cup VectorRoles(d) : d \in Devices}

NextDevices ==
    \/ \E d \in Devices : NewDevice(d)
    \/ \E role \in AllRoles : \E i \in 0..MaxDevWidth : \E j \in 0..MaxDevWidth :
          CallPin(role, i, j)

\* A device is built and its pin accessors are called.
SpecDevices == Init /\ [][NextDevices]_vars

(***************************************************************************)
(* The attributes of an object: attribute(key, value) and                  *)
(* has_compat_attributes.                                                  *)
(***************************************************************************)
AttrKeys == {"k1", "k2"}
AttrValues == {"v", "w"}

\* NetObj::has_compat_attributes(that): the loop over that.attributes_.
has_compat_keys(this, that) == \A key \in DOMAIN that : key \in DOMAIN this

has_compat_attributes(this, that) ==
    \A key \in DOMAIN that :
        ~(key \notin DOMAIN this) /\ ~(this[key] # that[key])

\* o.attribute(key, value)
SetAttribute(o, key, value) ==
    /\ pc = "idle"
    /\ attributes_' =
          [attributes_ EXCEPT ![o] =
              [k \in DOMAIN @ \cup {key} |-> IF k = key THEN value ELSE @[k]]]
    /\ op' = [name |-> "attribute", obj |-> o]
    /\ UNCHANGED <<pc, wexprs, dev, stepVars, exceptLast>>

\* a.has_compat_attributes(b)
HasCompatAttributes(a, b) ==
    /\ pc = "idle"
    /\ op' = [name |-> "has_compat_attributes", this |-> a, that |-> b,
              result |-> has_compat_attributes(attributes_[a], attributes_[b])]
    /\ UNCHANGED <<pc, lastVars, exceptLast>>

NextAttributes ==
    \/ \E o \in AttrObjs : \E key \in AttrKeys : \E value \in AttrValues :
          SetAttribute(o, key, value)
    \/ \E a \in AttrObjs : \E b \in AttrObjs : HasCompatAttributes(a, b)

\* Attributes are set on two objects and the objects are compared.
SpecAttributes == Init /\ [][NextAttributes]_vars

(***************************************************************************)
(* The lookups of the Design by scope path and name: find_signal,          *)
(* find_memory, find_function, find_task.                                  *)
(***************************************************************************)
\* The name of a signal: the n-th NetNet is K in the scope a, a.a, a.a.a ...
RECURSIVE ScopeOf(_)
ScopeOf(i) == IF i <= 1 THEN <<"a">> ELSE ScopeOf(i - 1) \o <<".", "a">>

NetName(n) == ScopeOf(n.id - NumSignals) \o <<".", "K">>

\* The signals that are given to the Design here: those of the two scopes.
LookupNets == {n \in NetNets : n.id - NumSignals <= 2}

\* The keys that memories, functions, tasks and parameters are entered with.
RegKeys == {ScopeOf(1) \o <<".", "K">>, ScopeOf(2) \o <<".", "K">>}

\* The memory, the function definition and the task definition of a name, and
\* the expression of the parameter of that name.
Memory(k) == [kind |-> "NetMemory", name |-> k]
FuncDef(k) == [kind |-> "NetFuncDef", name |-> k]
TaskDef(k) == [kind |-> "NetTaskDef", name |-> k]
ParamAt(k) == (Len(k) - 1) \div 2
NoEntry == [kind |-> "none", name |-> <<>>]

\* The paths and the name that the lookups are called with.
LookupPaths == {<<"a">>, <<"a", ".", "a", ".", "a">>}
LookupNames == {<<"K">>}

\* The do-while loop of Design::find_signal(path, name) over the ring of
\* signals, from cur.
RECURSIVE find_signal_ring(_, _, _, _)
find_signal_ring(d, fulname, c, fuel) ==
    IF NetName(c) = fulname
    THEN c
    ELSE IF d.prev[c] = d.head \/ fuel = 0
         THEN NoSignal
         ELSE find_signal_ring(d, fulname, d.prev[c], fuel - 1)

find_signal_here_only(d, root, name) ==
    find_signal_ring(d, root \o <<".">> \o name, d.head, Cardinality(NetNets))

\* The for (;;) loop of Design::find_signal(path, name), from the value of
\* root.
RECURSIVE find_signal_loop(_, _, _)
find_signal_loop(d, root, name) ==
    LET fulname == root \o <<".">> \o name
        hit == find_signal_ring(d, fulname, d.head, Cardinality(NetNets))
        pos == rfind(root, ".")
    IN  IF hit # NoSignal
        THEN hit
        ELSE IF pos > Len(root)
             THEN NoSignal
             ELSE find_signal_loop(d, substr0(root, pos), name)

\* Design::find_signal(path, name)
find_signal(d, path, name) ==
    IF d.head = NoSignal THEN NoSignal ELSE find_signal_loop(d, path, name)

\* The for (;;) loop of Design::find_memory, of Design::find_function(path,
\* name) and of Design::find_task(path, name), from the value of root.
RECURSIVE find_entry_loop(_, _, _)
find_entry_loop(map, root, name) ==
    LET fulname == root \o <<".">> \o name
        pos == rfind(root, ".")
    IN  IF fulname \in DOMAIN map
        THEN map[fulname]
        ELSE IF pos > Len(root)
             THEN NoEntry
             ELSE find_entry_loop(map, substr0(root, pos), name)

\* Design::find_memory(path, name)
find_memory(map, path, name) == find_entry_loop(map, path, name)

\* Design::find_function(path, name)
find_function(map, path, name) == find_entry_loop(map, path, name)

\* Design::find_task(path, name)
find_task(map, path, name) == find_entry_loop(map, path, name)

\* memories_[mem->name()] = mem, funcs_[key] = def, tasks_[key] = def
add_entry(map, key, e) ==
    [k \in DOMAIN map \cup {key} |-> IF k = key THEN e ELSE map[k]]

\* The registries and the counter of errors.
Registries ==
    [signals_ |-> SigRing, parameters_ |-> parameters_,
     memories_ |-> memories_, funcs_ |-> funcs_, tasks_ |-> tasks_,
     errors |-> errors]

exceptLookup == <<alive, next_, prev_, pc, cl, cr, cur, pre, erefVars,
                  designVars, parameters_, blockVars, ramVars, udpVars,
                  wexprs, dev, attributes_, stepVars, topVars, vaVars>>

\* Design::add_memory(mem)
AddMemory(mem) ==
    /\ pc = "idle"
    /\ memories_' = add_entry(memories_, mem.name, mem)
    /\ op' = [name |-> "add_memory"]
    /\ UNCHANGED <<funcs_, tasks_, exceptLookup>>

\* Design::add_function(key, def)
AddFunction(key, def) ==
    /\ pc = "idle"
    /\ funcs_' = add_entry(funcs_, key, def)
    /\ op' = [name |-> "add_function"]
    /\ UNCHANGED <<memories_, tasks_, exceptLookup>>

\* Design::add_task(key, def)
AddTask(key, def) ==
    /\ pc = "idle"
    /\ tasks_' = add_entry(tasks_, key, def)
    /\ op' = [name |-> "add_task"]
    /\ UNCHANGED <<memories_, funcs_, exceptLookup>>

\* A call of one of the five lookups with a path and a name.
FindByName(which, path, name) ==
    /\ pc = "idle"
    /\ op' = [name |-> which, path |-> path, pname |-> name,
              before |-> Registries,
              result |->
                  CASE which = "find_signal" ->
                           find_signal(SigRing, path, name)
                    [] which = "find_parameter" ->
                           find_parameter(parameters_, path, name)
                    [] which = "find_memory" ->
                           find_memory(memories_, path, name)
                    [] which = "find_function" ->
                           find_function(funcs_, path, name)
                    [] which = "find_task" ->
                           find_task(tasks_, path, name)]
    /\ UNCHANGED <<alive, next_, prev_, pc, cl, cr, cur, pre, erefVars,
                   otherVars>>

Lookups == {"find_signal", "find_parameter", "find_memory", "find_function",
            "find_task"}

NextLookup ==
    \/ \E n \in LookupNets : NewNet(n)
    \/ \E n \in LookupNets : AddSignal(n)
    \/ \E k \in RegKeys : SetParameter(k, ParamAt(k))
    \/ \E k \in RegKeys : AddMemory(Memory(k))
    \/ \E k \in RegKeys : AddFunction(k, FuncDef(k))
    \/ \E k \in RegKeys : AddTask(k, TaskDef(k))
    \/ \E which \in Lookups : \E path \in LookupPaths :
           \E name \in LookupNames : FindByName(which, path, name)

\* Signals, parameters, memories, functions and tasks are entered into the
\* Design under scoped names, and names are looked up from scope paths.
SpecLookup == Init /\ [][NextLookup]_vars

(***************************************************************************)
(* NetEBAdd::NetEBAdd: the four set_width calls on the operands.           *)
(***************************************************************************)
\* The widths of the operands of an addition.
AddWidths == {1, 2, 3}

\* An operand of an addition: an expression of some variant with its width,
\* and the widths that its set_width takes.
Operand(w, accepts) ==
    [type |-> "NetExpr", op |-> "", width |-> w, args |-> <<>>, repeat |-> 0,
     accepts |-> accepts]

\* e->set_width(w), a virtual method of the variant of e: the operand takes
\* the width w and returns true, or leaves its width and returns false.
set_width(e, w) == IF w \in e.accepts THEN [e EXCEPT !.width = w] ELSE e

\* The body of NetEBAdd::NetEBAdd(op, l, r): the operands as the constructor
\* leaves them, and the width it sets.
ebadd(l, r) ==
    LET r1 == IF l.width > r.width THEN set_width(r, l.width) ELSE r
        l2 == IF r1.width > l.width THEN set_width(l, r1.width) ELSE l
        r3 == IF l2.width < r1.width THEN set_width(r1, l2.width) ELSE r1
        l4 == IF r3.width < l2.width THEN set_width(l2, r3.width) ELSE l2
    IN  [l |-> l4, r |-> r3,
         width |-> IF r3.width # l4.width THEN 0 ELSE l4.width]

\* The operands to start from: two expressions of any widths, each with any
\* set of widths that it takes.
InitAdd ==
    /\ InitNexus /\ InitEref /\ InitDesign /\ InitLater /\ InitLast
    /\ InitFinal
    /\ \E a \in AddWidths : \E b \in AddWidths :
          \E sa \in SUBSET AddWidths : \E sb \in SUBSET AddWidths :
             wexprs = <<Operand(a, sa), Operand(b, sb)>>

\* new NetEBAdd(op, l, r)
NewEBAdd(o, l, r) ==
    /\ pc = "idle"
    /\ Len(wexprs) = 2
    /\ l # r
    /\ LET x == ebadd(wexprs[l], wexprs[r])
       IN  wexprs' = Append([wexprs EXCEPT ![l] = x.l, ![r] = x.r],
                            WExpr("NetEBAdd", o, x.width, <<l, r>>, 0))
    /\ op' = [name |-> "NetEBAdd", expr |-> Len(wexprs) + 1, l |-> l, r |-> r,
              before |-> wexprs]
    /\ UNCHANGED <<pc, dev, attributes_, stepVars, exceptLast>>

NextAdd ==
    \E o \in {"+", "-"} : \E l \in {1, 2} : \E r \in {1, 2} : NewEBAdd(o, l, r)

\* An addition or a subtraction is built over two operands.
SpecAdd == InitAdd /\ [][NextAdd]_vars

(***************************************************************************)
(* The constructors of the assignments: NetAssign and NetAssignNB, with    *)
(* and without a bit select of the l-value.                                *)
(***************************************************************************)
\* The r-value and the index of the bit select among the expressions.
RvalAt == 1
BmuxAt == 2

\* The expressions to start from: an r-value of any width with any set of
\* widths that it takes, and an index expression.
InitAssign ==
    /\ InitNexus /\ InitEref /\ InitDesign /\ InitLater /\ InitLast
    /\ InitFinal
    /\ \E a \in AddWidths : \E sa \in SUBSET AddWidths :
          wexprs = <<Operand(a, sa), Operand(1, {})>>

\* What the constructors of the assignments leave alone.
exceptAssign == <<alive, next_, prev_, pc, cl, cr, cur, pre, eref_count,
                  exprs, dup_call, designVars, parameters_, blockVars,
                  ramVars, cm_, fsm_, rows, dev, attributes_, stepVars,
                  finalVars>>

\* A constructor of an assignment has run: the statement a with its fields,
\* the r-value as the constructor leaves it and the counter of errors.
Assigned(a, type, w, mu, rv, errs) ==
    /\ pc = "idle"
    /\ stmts[a] = Free
    /\ stmts' = [stmts EXCEPT ![a] = [type |-> type, lwidth |-> w,
                                      rval_ |-> RvalAt, bmux_ |-> mu]]
    /\ wexprs' = [wexprs EXCEPT ![RvalAt] = rv]
    /\ errors' = errs
    /\ op' = [name |-> type, stmt |-> a, w |-> w, mux |-> mu # NoExpr,
              rv |-> wexprs[RvalAt], errors |-> errors]
    /\ UNCHANGED exceptAssign

\* The test of NetAssignNB::NetAssignNB(n, des, w, rv).
nb_conflict(width, w) == width < w

\* new NetAssign(n, des, w, rv)
NewAssign(a, w) ==
    Assigned(a, "NetAssign", w, NoExpr, wexprs[RvalAt], errors)

\* new NetAssign(n, des, w, mu, rv)
NewAssignMux(a, w) ==
    LET rv == wexprs[RvalAt]
        flag == 1 \in rv.accepts
    IN  Assigned(a, "NetAssign", w, BmuxAt, set_width(rv, 1),
                 IF flag THEN errors ELSE errors + 1)

\* new NetAssignNB(n, des, w, rv)
NewAssignNB(a, w) ==
    LET rv == wexprs[RvalAt]
    IN  Assigned(a, "NetAssignNB", w, NoExpr, rv,
                 IF nb_conflict(rv.width, w) THEN errors + 1 ELSE errors)

\* new NetAssignNB(n, des, w, mu, rv)
NewAssignNBMux(a, w) ==
    LET rv == wexprs[RvalAt]
        flag == 1 \in rv.accepts
    IN  Assigned(a, "NetAssignNB", w, BmuxAt, set_width(rv, 1),
                 IF flag THEN errors ELSE errors + 1)

NextAssign ==
    \E a \in Stmts : \E w \in AddWidths :
       \/ NewAssign(a, w)
       \/ NewAssignMux(a, w)
       \/ NewAssignNB(a, w)
       \/ NewAssignNBMux(a, w)

\* An assignment is built over an r-value.
SpecAssign == InitAssign /\ [][NextAssign]_vars

(***************************************************************************)
(* A pass that consumes the elements of a ring of the Design: it clears    *)
(* the marks, and then finds an element and marks it until it finds none.  *)
(***************************************************************************)
RingNamed(which) == IF which = "signals" THEN SigRing ELSE NodeRing

\* clear_signal_marks() or clear_node_marks(), and the pass is in its loop.
ConsumeBegin(which, func) ==
    /\ pc = "idle"
    /\ mark_' = clear_marks(RingNamed(which), mark_)
    /\ pc' = "consume_loop"
    /\ op' = [name |-> "consume", which |-> which, func |-> func,
              found |-> <<>>, marked |-> <<>>]
    /\ UNCHANGED <<alive, next_, prev_, cl, cr, cur, pre, erefVars, nets,
                   sigRingVars, nodeRingVars, design_>>
    /\ UNCHANGED laterVars

\* "e = find_signal(func)" or "e = find_node(func)", and when e is not 0
\* "e->set_mark(true)".
ConsumeStep ==
    /\ pc = "consume_loop"
    /\ LET e == find(RingNamed(op.which), mark_, op.func)
       IN  IF e = NoNode
           THEN /\ pc' = "idle"
                /\ UNCHANGED <<mark_, op>>
           ELSE IF e = Diverges
           THEN /\ pc' = "abort"
                /\ UNCHANGED <<mark_, op>>
           ELSE /\ pc' = pc
                /\ mark_' = [mark_ EXCEPT ![e] = TRUE]
                /\ op' = [op EXCEPT !.found = Append(@, e),
                                    !.marked = Append(@, mark_[e])]
    /\ UNCHANGED <<alive, next_, prev_, cl, cr, cur, pre, erefVars, nets,
                   sigRingVars, nodeRingVars, design_>>
    /\ UNCHANGED laterVars

NextConsume ==
    \/ \E n \in NetNets : alive = {} /\ NewNet(n)
    \/ \E n \in NetNets : AddSignal(n)
    \/ \E n \in NetNets : DelSignal(n)
    \/ \E n \in NetNodes : nets = {} /\ NewNode(n)
    \/ \E n \in NetNodes : AddNode(n)
    \/ \E n \in NetNodes : DelNode(n)
    \/ \E n \in NetNets \cup NetNodes : SetMark(n)
    \/ \E func \in SUBSET NetNets : ConsumeBegin("signals", func)
    \/ \E func \in SUBSET NetNodes : ConsumeBegin("nodes", func)
    \/ ConsumeStep

\* Signals or nodes are registered and marked, and passes consume them; a
\* pass that is in its loop goes on.
SpecConsume == Init /\ [][NextConsume]_vars /\ WF_<<pc, op>>(ConsumeStep)

(***************************************************************************)
(* The ports of one memory with wires on their Address and clock pins, for *)
(* a whole pass of absorb_partners over three ports.                       *)
(***************************************************************************)
\* connect(l, r) on two pins of live ports.
WirePins(l, r) ==
    /\ pc = "idle"
    /\ l \in LivePins
    /\ r \in LivePins
    /\ LET c == connect(Ring, l, r)
       IN  /\ pc' = IF c.ok THEN "idle" ELSE "abort"
           /\ next_' = c.ring.next_
           /\ prev_' = c.ring.prev_
    /\ op' = [name |-> "connect"]
    /\ pre' = NoRing
    /\ UNCHANGED <<alive, wires, ram_list_, ram_next_, exceptRam>>

\* The wires of the pass: the Address pins of the first port to those of
\* the others, the InClock pins of two ports, and the InClock pin of a port
\* to its own OutClock pin.
PassWires ==
    {<<pin_Address(ramA, 0), pin_Address(y, 0)>> : y \in RamDqs \ {ramA}}
    \cup {w \in {<<pin_InClock(x), pin_InClock(y)>> :
                       x \in RamDqs, y \in RamDqs} : w[1].node_.id < w[2].node_.id}
    \cup {<<pin_InClock(x), pin_OutClock(x)>> : x \in RamDqs \ {ramA}}

NextRamPass ==
    \/ \E r \in RamDqs : NewRamDq(r)
    \/ \E w \in PassWires : WirePins(w[1], w[2])
    \/ \E a \in RamDqs : AbsorbPartners(a)

\* Three ports of one memory are built in any order and wired, and one of
\* them absorbs its partners.
SpecRamPass == Init /\ [][NextRamPass]_vars

(***************************************************************************)
(* The list of the processes of the Design: add_process, delete_process,   *)
(* and the cursor procs_idx_ of a walk of the list.                        *)
(***************************************************************************)
\* The list from c on, by next_.  The walk gives up after fuel steps, where
\* a walk in the program would not end.
RECURSIVE TopsFrom(_, _, _)
TopsFrom(nxt, c, fuel) ==
    IF c = NoTop \/ fuel = 0 THEN <<>>
    ELSE <<c>> \o TopsFrom(nxt, nxt[c], fuel - 1)

\* The list of the processes, from procs_.
ProcList == TopsFrom(top_next_, procs_, Cardinality(Tops) + 1)

\* "if (procs_idx_ == top) procs_idx_ = top->next_"
advance_idx_never(idx, top, nxt) == idx

advance_idx(idx, top, nxt) == IF idx = top THEN nxt[top] ELSE idx

\* The while loop of Design::delete_process from cur on: the process whose
\* next_ is top, or NoTop when the assert on cur->next_ fails.
RECURSIVE find_before(_, _, _, _)
find_before(nxt, c, top, fuel) ==
    IF fuel = 0 THEN NoTop
    ELSE IF nxt[c] = top THEN c
    ELSE IF nxt[c] = NoTop THEN NoTop
    ELSE find_before(nxt, nxt[c], top, fuel - 1)

\* Design::delete_process(top): the head, the next_ pointers and the cursor
\* after it.  ok is FALSE when an assert fails: top is null, or top is not
\* on the list.  With an empty list the loop reads the next_ of a null
\* pointer, and the call crashes.  The next_ of the deleted process is gone
\* with it; the model keeps null in its place.
delete_process(head, nxt, idx, top) ==
    LET gone == [nxt EXCEPT ![top] = NoTop]
        c == find_before(nxt, head, top, Cardinality(Tops))
    IN  IF top = NoTop
        THEN [ok |-> FALSE, procs_ |-> head, next_ |-> nxt, idx |-> idx]
        ELSE IF head = top
        THEN [ok |-> TRUE, procs_ |-> nxt[top], next_ |-> gone,
              idx |-> advance_idx(idx, top, nxt)]
        ELSE IF head = NoTop \/ c = NoTop
        THEN [ok |-> FALSE, procs_ |-> head, next_ |-> nxt, idx |-> idx]
        ELSE [ok |-> TRUE, procs_ |-> head,
              next_ |-> [gone EXCEPT ![c] = nxt[top]],
              idx |-> advance_idx(idx, top, nxt)]

\* What the operations on the list of processes leave alone.
exceptTops == <<alive, next_, prev_, cl, cr, cur, pre, erefVars, designVars,
                parameters_, blockVars, ramVars, udpVars, wexprs, dev,
                attributes_, stepVars, lookupVars, vaVars>>

\* The list and the cursor, as an operation finds them.
TopsBefore == [list |-> ProcList, idx |-> procs_idx_]

\* Design::add_process(pro), on a NetProcTop that has just been constructed.
AddProcess(pro) ==
    /\ pc = "idle"
    /\ pro \in Tops
    /\ \A i \in 1..Len(proc_log) : proc_log[i] # pro
    /\ top_next_' = [top_next_ EXCEPT ![pro] = procs_]
    /\ procs_' = pro
    /\ proc_log' = <<pro>> \o proc_log
    /\ op' = [name |-> "add_process", top |-> pro, before |-> TopsBefore]
    /\ UNCHANGED <<pc, procs_idx_, exceptTops>>

\* Design::delete_process(top)
DeleteProcess(top) ==
    /\ pc = "idle"
    /\ LET d == delete_process(procs_, top_next_, procs_idx_, top)
       IN  /\ pc' = IF d.ok THEN "idle" ELSE "abort"
           /\ procs_' = d.procs_
           /\ top_next_' = d.next_
           /\ procs_idx_' = d.idx
    /\ proc_log' = SelectSeq(proc_log, LAMBDA t : t # top)
    /\ op' = [name |-> "delete_process", top |-> top, before |-> TopsBefore]
    /\ UNCHANGED exceptTops

\* A walk of the list, which is outside these sources, puts the cursor on
\* the head of the list.
WalkBegin ==
    /\ pc = "idle"
    /\ procs_idx_' = procs_
    /\ op' = [name |-> "walk", top |-> NoTop, before |-> TopsBefore]
    /\ UNCHANGED <<pc, procs_, top_next_, proc_log, exceptTops>>

\* The walk moves the cursor on by next_.
WalkNext ==
    /\ pc = "idle"
    /\ op.name = "walk"
    /\ procs_idx_ # NoTop
    /\ procs_idx_' = top_next_[procs_idx_]
    /\ op' = [name |-> "walk", top |-> NoTop, before |-> TopsBefore]
    /\ UNCHANGED <<pc, procs_, top_next_, proc_log, exceptTops>>

\* Design::Design gives procs_idx_ no value: until a walk sets it, the
\* cursor holds any address, that of a process to come or another (NoTop
\* stands for the others).
InitProcess ==
    /\ InitNexus /\ InitEref /\ InitDesign /\ InitLater /\ InitLast
    /\ InitMaps
    /\ procs_idx_ \in Tops \cup {NoTop}
    /\ wexprs = <<>>

NextProcess ==
    \/ \E pro \in Tops : AddProcess(pro)
    \/ \E top \in Tops \cup {NoTop} : DeleteProcess(top)
    \/ WalkBegin
    \/ WalkNext

\* Processes are added and deleted while a walk of the list moves the cursor.
SpecProcess == InitProcess /\ [][NextProcess]_vars

(***************************************************************************)
(* The compile-time check of the Verilog-A math functions of two           *)
(* arguments: va_double_argument_compiletf, va_process_argument,           *)
(* va_error_message.  An argument is "real" or "string", the kind that     *)
(* va_process_argument tells apart.                                        *)
(***************************************************************************)
MaxArgs == 4

ArgKinds == {"real", "string"}
ArgLists == UNION {[1..n -> ArgKinds] : n \in 0..MaxArgs}

\* vpi_iterate(vpiArgument, callh): null when the call has no argument.
vpi_iterate(args) ==
    IF args = <<>> THEN NoIter
    ELSE [pos |-> 0, freed |-> FALSE, stale |-> FALSE, null |-> FALSE]

\* vpi_scan(argv): the set of its outcomes, the handle it returns and the
\* iterator after it.  When it returns null it has freed the iterator.  On
\* an iterator that is freed already it reads freed memory: it can return
\* anything or crash (ok is FALSE), and stale records that it was called.
vpi_scan(it, args) ==
    IF it.freed
    THEN {[arg |-> a, it |-> [it EXCEPT !.stale = TRUE], ok |-> k] :
             a \in ArgKinds \cup {NoArg}, k \in BOOLEAN}
    ELSE IF it.pos < Len(args)
    THEN {[arg |-> args[it.pos + 1], it |-> [it EXCEPT !.pos = @ + 1],
           ok |-> TRUE]}
    ELSE {[arg |-> NoArg, it |-> [it EXCEPT !.freed = TRUE], ok |-> TRUE]}

\* va_error_message(callh, format, name): the message is printed and
\* vpi_control(vpiFinish, 1) is called.
va_error_message(out, format) ==
    [msgs |-> Append(out.msgs, format), finish |-> TRUE]

\* va_process_argument(callh, name, arg, post): what it returns, and what
\* has been printed after it.
va_process_argument(out, arg, post) ==
    IF arg = NoArg THEN [ret |-> NoArg, out |-> out]
    ELSE IF arg = "string"
    THEN [ret |-> NoArg,
          out |-> va_error_message(out, <<"cannot process strings", post>>)]
    ELSE [ret |-> arg, out |-> out]

\* "if (arg == 0) va_error_message(...)" after the second vpi_scan, and
\* "if (arg != 0) va_error_message(...)" after the third.
error_if(out, cond, format) ==
    IF cond THEN va_error_message(out, format) ELSE out

\* What has been printed, and whether the simulation is told to finish.
VaOut == [msgs |-> va_msgs, finish |-> va_finish]

\* What the compile-time check leaves alone.
exceptVa == <<alive, next_, prev_, cl, cr, cur, pre, erefVars, designVars,
              parameters_, blockVars, ramVars, udpVars, wexprs, dev,
              attributes_, stepVars, lookupVars, topVars>>

\* va_double_argument_compiletf on a call with the arguments args, up to the
\* first vpi_scan: malloc succeeds (mem) or fails, and argv is tested.
VaCompiletf(args, mem) ==
    /\ pc = "idle"
    /\ va_args' = args
    /\ va_argv' = vpi_iterate(args)
    /\ va_data' = NoData
    /\ LET out == IF ~mem
                  THEN va_error_message([msgs |-> <<>>, finish |-> FALSE],
                                        <<"failed to allocate memory">>)
                  ELSE error_if([msgs |-> <<>>, finish |-> FALSE],
                                vpi_iterate(args).null,
                                <<"requires two arguments">>)
       IN  /\ va_msgs' = out.msgs
           /\ va_finish' = out.finish
    /\ pc' = IF mem /\ ~vpi_iterate(args).null THEN "va_scan1" ELSE "idle"
    /\ op' = [name |-> "compiletf", malloc |-> mem,
              done |-> ~(mem /\ ~vpi_iterate(args).null)]
    /\ UNCHANGED exceptVa

\* "arg = vpi_scan(argv); fun_data->arg1 = va_process_argument(...)"
VaScan1 ==
    /\ pc = "va_scan1"
    /\ \E s \in vpi_scan(va_argv, va_args) :
          LET p == va_process_argument(VaOut, s.arg, " (arg1)")
          IN  /\ pc' = IF s.ok THEN "va_scan2" ELSE "abort"
              /\ va_argv' = s.it
              /\ va_data' = [va_data EXCEPT !.arg1 = p.ret]
              /\ va_msgs' = p.out.msgs
              /\ va_finish' = p.out.finish
    /\ UNCHANGED <<op, va_args, exceptVa>>

\* The second vpi_scan, the test for a null arg and
\* "fun_data->arg2 = va_process_argument(...)"
VaScan2 ==
    /\ pc = "va_scan2"
    /\ \E s \in vpi_scan(va_argv, va_args) :
          LET e == error_if(VaOut, s.arg = NoArg, <<"requires two arguments">>)
              p == va_process_argument(e, s.arg, " (arg2)")
          IN  /\ pc' = IF s.ok THEN "va_scan3" ELSE "abort"
              /\ va_argv' = s.it
              /\ va_data' = [va_data EXCEPT !.arg2 = p.ret]
              /\ va_msgs' = p.out.msgs
              /\ va_finish' = p.out.finish
    /\ UNCHANGED <<op, va_args, exceptVa>>

\* The third vpi_scan, the test for an arg that is not null,
\* vpi_put_userdata and the return.
VaScan3 ==
    /\ pc = "va_scan3"
    /\ \E s \in vpi_scan(va_argv, va_args) :
          LET e == error_if(VaOut, s.arg # NoArg,
                            <<"takes only two arguments">>)
          IN  /\ pc' = IF s.ok THEN "idle" ELSE "abort"
              /\ va_argv' = s.it
              /\ va_data' = [va_data EXCEPT !.set = s.ok]
              /\ va_msgs' = e.msgs
              /\ va_finish' = e.finish
              /\ op' = [op EXCEPT !.done = s.ok]
    /\ UNCHANGED <<va_args, exceptVa>>

NextVa ==
    \/ \E args \in ArgLists : \E mem \in BOOLEAN : VaCompiletf(args, mem)
    \/ VaScan1
    \/ VaScan2
    \/ VaScan3

\* Calls of the math functions of two arguments are checked one after
\* another; a check that has begun runs on to its return, as a C function
\* does.
SpecVaMath ==
    Init /\ [][NextVa]_vars
    /\ WF_vars(VaScan1) /\ WF_vars(VaScan2) /\ WF_vars(VaScan3)

(***************************************************************************)
(* The claims about the nexus ring.                                        *)
(***************************************************************************)
WellFormedAt(h, p) == h.prev_[h.next_[p]] = p /\ h.next_[h.prev_[p]] = p

\* C1: every live pin P has P.next.prev == P and P.prev.next == P in every
\* state: after construction, unlink and destruction, and after each
\* iteration of the loop of connect; a node just built has singleton pins.
C1_RingWellFormed ==
    /\ \A p \in LivePins : WellFormedAt(Ring, p)
    /\ (pc = "idle" /\ op.name = "new") =>
           \A p \in PinsOf(op.node) : next_[p] = p /\ prev_[p] = p

\* C1 witness: inside connect, after a pin has been moved, with three or
\* more pins on the ring of r.
C1_Witness ==
    /\ pc = "connect_loop"
    /\ Ring # pre
    /\ Len(RingSeq(Ring, cr)) >= 3

\* C2: after connect(l, r) of two pins of different rings the ring of r is
\* the pins of l's ring plus the pins of r's ring, each once, every one of
\* them reaches every other, and the pins of other rings are untouched.
C2_ConnectJoinsRings ==
    (pc = "connect_exit" /\ cr \notin RingOf(pre, cl)) =>
        LET both == RingOf(pre, cl) \cup RingOf(pre, cr)
        IN  /\ RingOf(Ring, cr) = both
            /\ Len(RingSeq(Ring, cr)) = Cardinality(both)
            /\ \A q \in both : RingOf(Ring, q) = both
            /\ \A q \in Links \ both :
                   next_[q] = pre.next_[q] /\ prev_[q] = pre.prev_[q]

\* C2 witness: connect has joined two rings of two pins each while a third
\* live pin sits on a ring of its own.
C2_Witness ==
    /\ pc = "connect_exit"
    /\ cr \notin RingOf(pre, cl)
    /\ Cardinality(RingOf(pre, cl)) >= 2
    /\ Cardinality(RingOf(pre, cr)) >= 2
    /\ LivePins \ (RingOf(pre, cl) \cup RingOf(pre, cr)) # {}

SameRingAtEntry == pc = "connect_exit" /\ cl # cr /\ cr \in RingOf(pre, cl)

\* C3 as claimed: connect of two distinct pins of the same ring leaves every
\* next and prev as it was.
C3_Original == SameRingAtEntry => Ring = pre

\* C3 as amended: connect of two distinct pins of the same ring leaves every
\* pin on the ring it was on, every ring well-formed and the pins of other
\* rings untouched; next and prev are all unchanged when r is the successor
\* of l, and the order of the ring may change otherwise.
C3_SameRingKeepsMembers ==
    SameRingAtEntry =>
        /\ \A q \in Links : RingOf(Ring, q) = RingOf(pre, q)
        /\ \A q \in Links : WellFormedAt(Ring, q)
        /\ \A q \in Links \ RingOf(pre, cl) :
               next_[q] = pre.next_[q] /\ prev_[q] = pre.prev_[q]
        /\ (pre.next_[cl] = cr => Ring = pre)

\* C3 witness: connect of two pins of one ring has returned with the order
\* of the ring changed.
C3_Witness == SameRingAtEntry /\ Ring # pre

\* C4 as claimed: connect(p, p) returns normally.
C4_Original == (op.name = "connect" /\ cl = cr) => pc # "abort"

\* C4 as amended: connect(p, p) fails the assert &l != &r on entry, before
\* any pin is changed; it does not return.
C4_SelfConnectRejected ==
    (op.name = "connect" /\ cl = cr) => (pc = "abort" /\ Ring = pre)

\* C4 witness: connect(p, p) was called on a pin of a ring of several pins.
C4_Witness == op.name = "connect" /\ cl = cr /\ next_[cl] # cl

\* The first link after q, in the order of ring h, that is not in D; q when
\* there is none.
RECURSIVE SkipNext(_, _, _, _, _)
SkipNext(h, q, c, D, fuel) ==
    IF fuel = 0 \/ c = q \/ c \notin D THEN c
    ELSE SkipNext(h, q, h.next_[c], D, fuel - 1)

RECURSIVE SkipPrev(_, _, _, _, _)
SkipPrev(h, q, c, D, fuel) ==
    IF fuel = 0 \/ c = q \/ c \notin D THEN c
    ELSE SkipPrev(h, q, h.prev_[c], D, fuel - 1)

\* The links of D are singletons and the other links are in the rings and
\* in the order of h, with the links of D left out.
Detached(h, D) ==
    /\ \A p \in D : next_[p] = p /\ prev_[p] = p
    /\ \A q \in Links \ D :
           /\ next_[q] = SkipNext(h, q, h.next_[q], D, Cardinality(Links))
           /\ prev_[q] = SkipPrev(h, q, h.prev_[q], D, Cardinality(Links))

\* C5: unlink(P), and the destruction of a node for each of its pins, leaves
\* the pin a singleton and the other pins of its ring on a well-formed ring
\* in their previous order; no live pin ever refers to a destroyed pin.
C5_UnlinkDetaches ==
    /\ (pc = "idle" /\ op.name = "unlink") => Detached(pre, {op.link})
    /\ (pc = "idle" /\ op.name = "destroy") => Detached(pre, PinsOf(op.node))
    /\ \A p \in LivePins : next_[p] \in LivePins /\ prev_[p] \in LivePins

\* C5 witness: a node was destroyed whose two pins were on one ring with
\* two pins of a node that is still alive.
C5_Witness ==
    /\ pc = "idle"
    /\ op.name = "destroy"
    /\ \E p \in PinsOf(op.node) :
           /\ PinsOf(op.node) \subseteq RingOf(pre, p)
           /\ Cardinality(RingOf(pre, p) \cap LivePins) >= 2
    /\ pin_count(op.node) = 2

\* C6: count_inputs, count_outputs and count_signals give the number of
\* pins of the ring that are INPUT, OUTPUT, owned by a signal, whatever pin
\* of the ring the count starts from.
C6_CountsAreRingCounts ==
    pc = "idle" =>
        \A p \in LivePins :
            LET ring == RingOf(Ring, p)
                ins == count_inputs(Ring, p)
                outs == count_outputs(Ring, p)
                sigs == count_signals(Ring, p)
            IN  /\ ins = Cardinality({q \in ring : get_dir(q) = "INPUT"})
                /\ outs = Cardinality({q \in ring : get_dir(q) = "OUTPUT"})
                /\ sigs = Cardinality({q \in ring : IsSignal(q.node_)})
                /\ \A q \in ring :
                       /\ count_inputs(Ring, q) = ins
                       /\ count_outputs(Ring, q) = outs
                       /\ count_signals(Ring, q) = sigs

\* C6 witness: a ring with two outputs, two inputs and a signal.
C6_Witness ==
    /\ pc = "idle"
    /\ \E p \in LivePins :
           /\ count_inputs(Ring, p) = 2
           /\ count_outputs(Ring, p) = 2
           /\ count_signals(Ring, p) = 1

\* The state of scenario 1: of two fresh NetBUFZ, only pin 0 of b1 and pin 1
\* of b2 are connected.
NexusMergeScenario ==
    /\ pc = "idle"
    /\ {b1, b2} \subseteq alive
    /\ RingOf(Ring, Link(b1, 0)) = {Link(b1, 0), Link(b2, 1)}
    /\ RingOf(Ring, Link(b1, 1)) = {Link(b1, 1)}
    /\ RingOf(Ring, Link(b2, 0)) = {Link(b2, 0)}

\* C7: connected(A, B) is true iff the ring of every pin of A holds another
\* pin, owned by B; in scenario 1 b1.pin(0).is_linked(b2) is true,
\* connected(b1, b2) is false and the ring counts one output and one input.
C7_ConnectedIsAllPinsLinked ==
    /\ pc = "idle" =>
           \A A \in alive : \A B \in alive :
               connected(Ring, A, B) <=>
                   \A i \in 0..(pin_count(A) - 1) :
                       \E q \in RingOf(Ring, Link(A, i)) \ {Link(A, i)} :
                           q.node_ = B
    /\ NexusMergeScenario =>
           /\ is_linked(Ring, Link(b1, 0), b2)
           /\ ~connected(Ring, b1, b2)
           /\ count_outputs(Ring, Link(b1, 0)) = 1
           /\ count_inputs(Ring, Link(b1, 0)) = 1

\* C7 witness: scenario 1.
C7_Witness == NexusMergeScenario

\* The first link owned by a signal on the way round the ring from p, p
\* itself left out.
FirstSignalAfter(h, p) ==
    LET seq == RingSeq(h, p)
        hits == {i \in 2..Len(seq) : IsSignal(seq[i].node_)}
    IN  IF hits = {} THEN [sig |-> NoSignal]
        ELSE LET i == CHOOSE j \in hits : \A k \in hits : j <= k
             IN  [sig |-> seq[i].node_, bidx |-> seq[i].pin_]

\* C8 as claimed: find_link_signal(Node, pin) gives the first pin owned by
\* a signal on the way round the whole ring of Node.pin(pin), and none only
\* when no other pin of the ring is owned by a signal.
C8_Original ==
    pc = "idle" =>
        \A n \in alive : \A i \in 0..(pin_count(n) - 1) :
            find_link_signal(Ring, n, i) = FirstSignalAfter(Ring, Link(n, i))

(***************************************************************************)
(* The claims about the expression reference counter.                      *)
(***************************************************************************)
LiveSignalRefs(s) ==
    {e \in Exprs : exprs[e].type = "NetESignal" /\ exprs[e].net_ = s}

LiveMemAssigns(s) ==
    {a \in Stmts : stmts[a].type = "NetAssignMem" /\ stmts[a].index_ = s}

\* C9 as claimed: eref_count of every signal S is the number of live
\* expression nodes that refer to S, and is never negative.
C9_Original ==
    \A s \in SignalNodes :
        eref_count[s] >= 0 /\ eref_count[s] = Cardinality(LiveSignalRefs(s))

\* C9 as amended: eref_count of every signal S is the number of live
\* signal-reference expressions on S plus the number of live
\* memory-assignment statements whose index signal is S, and is never
\* negative.
C9_ErefBalance ==
    \A s \in SignalNodes :
        /\ eref_count[s] >= 0
        /\ eref_count[s] = Cardinality(LiveSignalRefs(s))
                           + Cardinality(LiveMemAssigns(s))

\* C9 witness: after the deletion of an expression, a signal is still held
\* by a signal reference and by a memory assignment.
C9_Witness ==
    /\ pc = "idle"
    /\ op.name = "delete_expr"
    /\ \E s \in SignalNodes : LiveSignalRefs(s) # {} /\ LiveMemAssigns(s) # {}

\* C10 as claimed: dup_expr of a signal reference E1 on S returns with a
\* second live signal reference on S, and eref_count of S is one more than
\* the references there were (2 after one duplicate of the only reference).
C10_Original ==
    (dup_call.expr # NoExpr /\ exprs[dup_call.expr].type = "NetESignal") =>
        LET S == exprs[dup_call.expr].net_
        IN  /\ pc # "abort"
            /\ dup_call.result \in Exprs \ {dup_call.expr}
            /\ exprs[dup_call.result] = [type |-> "NetESignal", net_ |-> S]
            /\ eref_count[S] = Cardinality(LiveSignalRefs(S))
                               + Cardinality(LiveMemAssigns(S))
            /\ Cardinality(LiveSignalRefs(S)) >= 2

(***************************************************************************)
(* The claims about the Design: its rings, the reference counter of a      *)
(* registered signal, the marks and the searches.                          *)
(***************************************************************************)
\* The elements met by following next from c until the head comes again.
RECURSIVE RingWalk(_, _, _)
RingWalk(d, c, fuel) ==
    IF fuel = 0
    THEN <<c>>
    ELSE IF d.next[c] = d.head
         THEN <<c>>
         ELSE <<c>> \o RingWalk(d, d.next[c], fuel - 1)

Range(seq) == {seq[i] : i \in 1..Len(seq)}

\* The elements on the ring d, from its head.
OnRing(d) ==
    IF d.head \in {NoSignal, NoNode}
    THEN <<>>
    ELSE RingWalk(d, d.head, Cardinality(DOMAIN d.next))

\* C11: destroying a signal that expressions still refer to fails on the
\* assert and leaves it on the signal ring if it was registered; destroying a
\* signal with no reference succeeds and takes it off the ring; decr_eref on a
\* count of zero fails on the assert, so no count ever goes below zero.
C11_ErefAsserts ==
    /\ \A n \in NetNets : eref_count[n] >= 0
    /\ (op.name = "destroy_net" /\ pc = "abort") =>
           /\ eref_count[op.node] > 0
           /\ op.node \in nets
           /\ op.node \in Range(sig_order) <=>
                  op.node \in Range(OnRing(SigRing))
           /\ design_[op.node] <=> op.node \in Range(sig_order)
    /\ (op.name = "destroy_net" /\ pc = "idle") =>
           /\ eref_count[op.node] = 0
           /\ op.node \notin nets
           /\ op.node \notin Range(OnRing(SigRing))
           /\ ~design_[op.node]
    /\ (op.name = "decr_eref" /\ pc = "abort") => eref_count[op.node] = 0

\* A registered signal with a reference has been destroyed, and the assert
\* has stopped it.
C11_Witness ==
    /\ op.name = "destroy_net"
    /\ pc = "abort"
    /\ design_[op.node]
    /\ Len(sig_order) = 2

\* One well-formed ring d over the live elements, registered in order.
RingInvariant(d, live, order) ==
    LET walk == OnRing(d)
    IN  /\ Range(walk) = Range(order)
        /\ Len(walk) = Cardinality(Range(order))
        /\ Len(order) = Cardinality(Range(order))
        /\ Range(order) \subseteq live
        /\ \A n \in Range(walk) :
               /\ d.prev[d.next[n]] = n
               /\ d.next[d.prev[n]] = n
               /\ d.next[n] \in Range(walk)
        /\ (d.head \in {NoSignal, NoNode}) <=> (order = <<>>)
        /\ order # <<>> => d.head \in Range(order)
        /\ \A n \in live : d.design[n] <=> n \in Range(walk)

\* C12: after any sequence of add_signal and del_signal, and of add_node and
\* del_node, the ring is a well-formed circular doubly-linked list of exactly
\* the registered elements, each once; the head is null iff nothing is
\* registered and is a registered element otherwise; design_ is set on
\* exactly the elements of the ring.
C12_DesignRings ==
    /\ RingInvariant(SigRing, nets, sig_order)
    /\ RingInvariant(NodeRing, NetNodes \cap alive, node_order)

\* An element has been taken off each of the two rings, and an element is
\* left on each.
C12_Witness ==
    /\ op.name \in {"del_signal", "del_node"}
    /\ pc = "idle"
    /\ Len(sig_order) = 1
    /\ Len(node_order) = 1
    /\ \E n \in nets : ~design_[n] /\ sig_next_[n] # NoSignal
    /\ \E n \in NetNodes \cap alive : ~design_[n] /\ node_next_[n] # NoNode

\* The first element of order that is not marked and that func accepts.
EarliestUnmarked(order, m, func) ==
    LET cand == SelectSeq(order, LAMBDA x : ~m[x] /\ x \in func)
    IN  IF cand = <<>> THEN NoNode ELSE Head(cand)

\* C14: find_signal and find_node return the earliest registered element that
\* is not marked and that the predicate accepts, and none iff there is no
\* such element; after clear_signal_marks and clear_node_marks no registered
\* element is marked.
C14_FindAndClear ==
    /\ op.name = "find_signal" =>
           op.result = EarliestUnmarked(sig_order, mark_, op.func)
    /\ op.name = "find_node" =>
           op.result = EarliestUnmarked(node_order, mark_, op.func)
    /\ op.name = "clear_signal_marks" =>
           \A n \in Range(sig_order) : ~mark_[n]
    /\ op.name = "clear_node_marks" =>
           \A n \in Range(node_order) : ~mark_[n]

\* A search has passed over a marked element that the predicate accepts and
\* has returned a later one.
C14_Witness ==
    /\ op.name = "find_signal"
    /\ Len(sig_order) = 2
    /\ mark_[sig_order[1]]
    /\ sig_order[1] \in op.func
    /\ op.result = sig_order[2]

(***************************************************************************)
(* The claims about the parameters of the Design.                          *)
(***************************************************************************)
\* P itself and P with one or more of its trailing dotted components
\* stripped.
Stripped(P) == {P} \cup {SubSeq(P, 1, i - 1) : i \in {j \in 1..Len(P) : P[j] = "."}}

\* The scopes of Stripped(P) under which N is registered.
ScopesWith(params, P, N) ==
    {Q \in Stripped(P) : (Q \o <<".">> \o N) \in DOMAIN params}

Longest(S) == CHOOSE Q \in S : \A R \in S : Len(R) <= Len(Q)

\* C13: find_parameter(P, N) returns the expression registered under Q.N for
\* the longest Q, among P and P with trailing dotted components stripped,
\* for which Q.N is registered, and none when there is no such Q.
C13_FindParameterLongestScope ==
    op.name = "find_parameter" =>
        LET S == ScopesWith(parameters_, op.path, op.pname)
        IN  IF S = {}
            THEN op.result = NoExpr
            ELSE op.result = parameters_[Longest(S) \o <<".">> \o op.pname]

\* K is registered under a.a and under a with different expressions, and a
\* lookup from a.a.a has found the one under a.a.
C13_Witness ==
    /\ op.name = "find_parameter"
    /\ op.path = <<"a", ".", "a", ".", "a">>
    /\ op.pname = <<"K">>
    /\ <<"a", ".", "a", ".", "K">> \in DOMAIN parameters_
    /\ <<"a", ".", "K">> \in DOMAIN parameters_
    /\ <<"a", ".", "a", ".", "a", ".", "K">> \notin DOMAIN parameters_
    /\ parameters_[<<"a", ".", "K">>] = 1
    /\ op.result = 2

(***************************************************************************)
(* The claims about a block of statements.                                 *)
(***************************************************************************)
\* The statements met by following next_ from c, up to n of them.
RECURSIVE FollowNext(_, _, _)
FollowNext(b, c, n) ==
    IF n = 0 THEN <<>> ELSE <<c>> \o FollowNext(b, b.next_[c], n - 1)

\* C17: after appending p1..pn (n >= 1), last_ is pn, last_->next_ is p1, and
\* following next_ from the head visits p1, ..., pn in the order of the
\* appends, each once, and then comes back to p1.
C17_AppendOrder ==
    (block_live /\ appended # <<>>) =>
        LET n == Len(appended)
        IN  /\ last_ = appended[n]
            /\ proc_next_[last_] = appended[1]
            /\ FollowNext(BlockList, proc_next_[last_], n + 1) =
                   Append(appended, appended[1])

\* Three statements have been appended to a block.
C17_Witness ==
    /\ block_live
    /\ op.name = "append"
    /\ Len(appended) = 3

\* C18 as the specification states it: once a block is destroyed, each of the
\* statements that were appended to it has been destroyed exactly once.
C18_Original ==
    (op.name = "destroy_block") =>
        \A i \in 1..Len(appended) : destroyed[appended[i]] = 1

(***************************************************************************)
(* The claims about the ports of a memory.                                 *)
(***************************************************************************)
LivePorts == RamDqs \cap alive

\* C15: after any sequence of constructions, destructions and absorb_partners
\* calls, ram_list_ reaches every live port exactly once and no destroyed
\* port, and count_partners is the number of live ports.
C15_RamListMembership ==
    /\ Range(RamList) = LivePorts
    /\ Len(RamList) = Cardinality(LivePorts)
    /\ LivePorts # {} => count_partners(RamState) = Cardinality(LivePorts)

\* A port has absorbed the two others, and is alone on the list.
C15_Witness ==
    /\ op.name = "absorb_partners"
    /\ Len(op.list) = 3
    /\ LivePorts = {op.node}
    /\ count_partners(RamState) = 1

\* The port that absorb_partners examines first: the first of the list that is
\* not the absorbing port.
FirstPartner ==
    LET others == SelectSeq(op.list, LAMBDA r : r # op.node)
    IN  IF others = <<>> THEN NoRam ELSE Head(others)

\* p and q are linked to each other, or one of them is linked to nothing.
Compatible(h, p, q) ==
    \/ q \in RingOf(h, p)
    \/ RingOf(h, p) = {p}
    \/ RingOf(h, q) = {q}

\* The conditions under which port A absorbs port B, on the wiring h.
Mergeable(h, A, B) ==
    /\ \A idx \in 0..(AWidth - 1) :
           pin_Address(B, idx) \in RingOf(h, pin_Address(A, idx))
    /\ Compatible(h, pin_InClock(A), pin_InClock(B))
    /\ Compatible(h, pin_OutClock(A), pin_OutClock(B))
    /\ Compatible(h, pin_WE(A), pin_WE(B))
    /\ \A idx \in 0..(Width - 1) :
           /\ Compatible(h, pin_Data(A, idx), pin_Data(B, idx))
           /\ Compatible(h, pin_Q(A, idx), pin_Q(B, idx))

\* C16: absorb_partners on port A destroys the port B it examines iff the
\* Address pins of A and B are linked to each other and each pair of InClock,
\* OutClock, WE, Data and Q pins is linked to each other or has an unlinked
\* pin; a port that fails a condition stays on the list with its wiring as it
\* was.
C16_AbsorbIffMergeable ==
    (op.name = "absorb_partners" /\ FirstPartner # NoRam) =>
        /\ pc = "idle"
        /\ FirstPartner \notin alive <=> Mergeable(pre, op.node, FirstPartner)
        /\ FirstPartner \in alive => (Ring = pre /\ RamList = op.list)

\* The Address pins were linked and WE of the partner was not: the partner is
\* absorbed, and count_partners has gone from 2 to 1.
C16_Witness ==
    /\ op.name = "absorb_partners"
    /\ Len(op.list) = 2
    /\ FirstPartner \notin alive
    /\ pre.next_[pin_WE(FirstPartner)] = pin_WE(FirstPartner)
    /\ pre.next_[pin_WE(op.node)] # pin_WE(op.node)
    /\ count_partners(RamState) = 1
    /\ RamList = <<op.node>>

(***************************************************************************)
(* The claims about the tables of a UDP.                                   *)
(***************************************************************************)
\* The map that holds the rows of before and the row input -> output.
WithRow(before, input, output) ==
    [k \in DOMAIN before \cup {input} |->
        IF k = input THEN output ELSE before[k]]

\* C19 as the specification states it: on a combinational UDP an accepted
\* set_table call has an input of length pin_count - 1 whose characters are
\* all 0, 1 or x, and after it the map holds the rows it held before and the
\* row of the call, mapped to the output of the call.
C19_Original ==
    (op.name = "set_table" /\ pc = "idle")
    => /\ Len(op.input) = CombPins - 1
       /\ \A i \in 1..Len(op.input) : op.input[i] \in Levels
       /\ cm_ = WithRow(op.before, op.input, op.output)

\* A row with exactly one edge character and levels elsewhere.
GroundRow(input) ==
    /\ Len(input) = SequPins
    /\ Cardinality({i \in 1..Len(input) : input[i] \in Edges}) = 1
    /\ \A i \in 1..Len(input) : input[i] \in Levels \cup Edges

\* The position of the edge of a ground row, from 0.
EdgeAt(input) == (CHOOSE i \in 1..Len(input) : input[i] \in Edges) - 1

SourceLevel ==
    [c \in Edges |-> IF c \in {"r", "P"} THEN "0"
                     ELSE IF c \in {"f", "N"} THEN "1" ELSE "x"]

TargetLevel ==
    [c \in Edges |-> IF c \in {"r", "R"} THEN "1"
                     ELSE IF c \in {"f", "F"} THEN "0" ELSE "x"]

\* The from-state of a ground row: the row with the edge position holding
\* the source level of the edge.
FromState(input) ==
    [i \in 1..Len(input) |->
        IF i = EdgeAt(input) + 1 THEN SourceLevel[input[i]] ELSE input[i]]

\* The to-state of a ground row: the from-state with the first character
\* replaced by output (kept when output is "-") and then the edge position
\* replaced by the target level of the edge.
ToState(input, output) ==
    [i \in 1..Len(input) |->
        IF i = EdgeAt(input) + 1 THEN TargetLevel[input[i]]
        ELSE IF i = 1 /\ output # "-" THEN output
        ELSE FromState(input)[i]]

\* The slot named by a level.
SlotName == [l \in Levels |-> IF l = "0" THEN "zer"
                              ELSE IF l = "1" THEN "one" ELSE "xxx"]

\* The state of key k before the call: the one the table held, or a fresh
\* one whose output is the first character of its key.
Prior(before, k) ==
    IF k \in DOMAIN before
    THEN before[k]
    ELSE [out |-> k[1],
          pins |-> [i \in 0..(SequPins - 1) |->
                       [zer |-> NoState, one |-> NoState, xxx |-> NoState]]]

\* What set_table with a ground row leaves: the from-state and the to-state
\* are in the table, the slot of the from-state for the pin of the edge and
\* the target level is the to-state, and every other slot of every state is
\* as it was.
RowIsSet(before, after, input, output) ==
    LET frm == FromState(input)
        to == ToState(input, output)
        edge == EdgeAt(input)
        slot == SlotName[TargetLevel[input[edge + 1]]]
    IN  /\ DOMAIN after = DOMAIN before \cup {frm, to}
        /\ \A k \in DOMAIN after :
              /\ after[k].out = Prior(before, k).out
              /\ \A i \in 0..(SequPins - 1) :
                    \A s \in {"zer", "one", "xxx"} :
                       after[k].pins[i][s] =
                          IF k = frm /\ i = edge /\ s = slot
                          THEN to
                          ELSE Prior(before, k).pins[i][s]

\* The state that the slot of the row held before the call.
SlotBefore(before, input) ==
    LET edge == EdgeAt(input)
    IN  Prior(before, FromState(input))
           .pins[edge][SlotName[TargetLevel[input[edge + 1]]]]

\* The last call was set_table with a ground row and a legal output.
GroundCall ==
    /\ op.name = "set_table"
    /\ GroundRow(op.input)
    /\ op.output \in {"0", "1", "-"}

C21_Original ==
    (op.name = "set_table" /\ op.input = <<"0", "r">> /\ op.output = "1"
        /\ pc = "idle")
    => /\ <<"0", "0">> \in DOMAIN fsm_
       /\ fsm_[<<"0", "0">>].pins[1].one = <<"1", "0">>

\* C21: on a sequential UDP whose rows have length 2, after a
\* set_table("0r", '1') that returns, the states "00" and "11" exist and the
\* pin-1 transition of "00" on level 1 points to the state "11".
C21_RisingEdgeRow ==
    (op.name = "set_table" /\ op.input = <<"0", "r">> /\ op.output = "1"
        /\ pc = "idle")
    => /\ {<<"0", "0">>, <<"1", "1">>} \subseteq DOMAIN fsm_
       /\ fsm_[<<"0", "0">>].pins[1].one = <<"1", "1">>
       /\ fsm_[<<"1", "1">>].out = "1"

\* set_table("0r", '1') has returned on a table that was empty.
C21_Witness ==
    /\ op.name = "set_table"
    /\ op.input = <<"0", "r">>
    /\ op.output = "1"
    /\ pc = "idle"
    /\ DOMAIN op.before = {}
    /\ DOMAIN fsm_ = {<<"0", "0">>, <<"1", "1">>}

\* The last set_table call had an output that is not 0, 1 or -, or a ground
\* row whose slot already held a state other than its to-state.
Rejected ==
    /\ op.name = "set_table"
    /\ \/ op.output \notin {"0", "1", "-"}
       \/ /\ GroundCall
          /\ SlotBefore(op.before, op.input)
                \notin {NoState, ToState(op.input, op.output)}

\* C22 as the specification states it: a set_table call with an illegal
\* output character, or for a row whose slot is already set to another
\* state, comes back with Design.errors incremented and the table as it was.
C22_Original ==
    Rejected
    => /\ pc = "idle"
       /\ errors > 0
       /\ fsm_ = op.before

\* The transition slots of a state.
SlotsOf(st) ==
    UNION {{st.pins[pin].zer, st.pins[pin].one, st.pins[pin].xxx} :
              pin \in 0..(SequPins - 1)}

\* C23: after cleanup_table() on a sequential state table no slot of a
\* remaining state points to a state whose output is x, no remaining state
\* has output x and no outgoing transition, no remaining transition points
\* to a state that was erased, and every state whose output is not x is
\* still there.
C23_CleanupTable ==
    (op.name = "cleanup_table" /\ pc = "idle")
    => /\ \A k \in DOMAIN fsm_ : \A v \in SlotsOf(fsm_[k]) \ {NoState} :
             /\ v \in DOMAIN fsm_
             /\ fsm_[v].out # "x"
             /\ op.before[v].out # "x"
       /\ \A k \in DOMAIN fsm_ :
             ~(fsm_[k].out = "x" /\ SlotsOf(fsm_[k]) \subseteq {NoState})
       /\ DOMAIN fsm_ \subseteq DOMAIN op.before
       /\ \A k \in DOMAIN op.before :
             op.before[k].out # "x" => k \in DOMAIN fsm_

\* cleanup_table has set a transition to null, erased a state whose output
\* is x and kept another state whose output is x.
C23_Witness ==
    /\ op.name = "cleanup_table"
    /\ pc = "idle"
    /\ DOMAIN fsm_ # DOMAIN op.before
    /\ \E k \in DOMAIN fsm_ :
          /\ fsm_[k].out = "x"
          /\ fsm_[k] # op.before[k]

\* The state in from's slot for pin and level to; null when from is not a
\* state of the table or there is no such slot.
SlotAt(fsm, from, to, pin) ==
    IF from \in DOMAIN fsm /\ pin \in 0..(SequPins - 1) /\ to \in Levels
    THEN fsm[from].pins[pin][SlotName[to]]
    ELSE NoState

\* The output of the state in from's slot, x when there is none.
SlotOutput(fsm, from, to, pin) ==
    IF SlotAt(fsm, from, to, pin) = NoState
    THEN "x"
    ELSE fsm[SlotAt(fsm, from, to, pin)].out

\* The last call is a table_lookup of the transition that the set_table call
\* just before it has set from a ground row.
LooksUpRowJustSet ==
    /\ op.name = "table_lookup"
    /\ op.after.name = "set_table"
    /\ GroundRow(op.after.input)
    /\ op.from = FromState(op.after.input)
    /\ op.pin = EdgeAt(op.after.input)
    /\ op.to = TargetLevel[op.after.input[op.pin + 1]]

\* The output that the row just set gives: its output, or the output of the
\* from-state when the output is "-".
RowOutput ==
    IF op.after.output = "-" THEN op.from[1] ELSE op.after.output

RECURSIVE SumWidths(_)
SumWidths(args) ==
    IF args = <<>> THEN 0
    ELSE wexprs[Head(args)].width + SumWidths(Tail(args))

\* The expression that the last constructor built.
JustBuilt(type) == op.name = type /\ pc = "idle"

\* C25: at construction a ternary has the width of its true branch; a
\* comparison, a logical operator and a bit select have width 1; a shift has
\* the width of its left operand; a unary reduction operator (!, &, |, ^,
\* ~&, ~|, ~^) has width 1 and another unary operator the width of its
\* operand; and a concatenation whose every part has been set has width
\* repeat times the sum of the widths of the parts, in whatever order the
\* parts were set.
C25_ExprWidths ==
    /\ JustBuilt("NetETernary")
          => expr_width(op.expr) = expr_width(wexprs[op.expr].args[2])
    /\ (JustBuilt("NetEBComp") \/ JustBuilt("NetEBLogic")
           \/ JustBuilt("NetESubSignal"))
          => expr_width(op.expr) = 1
    /\ JustBuilt("NetEBShift")
          => expr_width(op.expr) = expr_width(wexprs[op.expr].args[1])
    /\ JustBuilt("NetEUnary")
          => expr_width(op.expr) =
                IF wexprs[op.expr].op \in {"!", "&", "|", "^", "A", "N", "X"}
                THEN 1
                ELSE expr_width(wexprs[op.expr].args[1])
    /\ \A c \in 1..Len(wexprs) :
          (wexprs[c].type = "NetEConcat" /\ c \in Finished)
             => wexprs[c].width = wexprs[c].repeat * SumWidths(wexprs[c].args)

\* The second part of a concatenation of two parts with repeat 2 has been
\* set after the first, or the first after the second, and the two parts
\* have different widths.
C25_Witness ==
    /\ op.name = "NetEConcat::set"
    /\ pc = "idle"
    /\ op.expr \in Finished
    /\ wexprs[op.expr].repeat = 2
    /\ Len(wexprs[op.expr].args) = 2
    /\ op.idx = 0
    /\ wexprs[op.expr].width = 2 * (expr_width(1) + expr_width(2))
    /\ wexprs[op.expr].args = <<1, 2>>

\* C26 as the specification states it: dup_expr of an expression, here of a
\* unary expression, returns a new expression that is not the original, has
\* its variant, and shares no expression with it.
C26_Original ==
    (dup_call.expr # NoExpr /\ exprs[dup_call.expr].type = "NetEUnary")
    => /\ pc # "abort"
       /\ dup_call.result \in Exprs \ {dup_call.expr}
       /\ exprs[dup_call.result].type = "NetEUnary"
       /\ exprs[dup_call.result].expr_ # exprs[dup_call.expr].expr_

(***************************************************************************)
(* The claims about the pins of the devices and about attributes.          *)
(***************************************************************************)
\* The pinout table of the devices: the index of role, bit i and input j.
Pinout(d, role, i, j) ==
    CASE d.kind = "NetFF" ->
            (CASE role = "Clock" -> 0 [] role = "Enable" -> 1
               [] role = "Aload" -> 2 [] role = "Aset" -> 3
               [] role = "Aclr" -> 4 [] role = "Sload" -> 5
               [] role = "Sset" -> 6 [] role = "Sclr" -> 7
               [] role = "Data" -> 8 + 2 * i [] role = "Q" -> 9 + 2 * i)
      [] d.kind = "NetAddSub" ->
            (CASE role = "Add_Sub" -> 0 [] role = "Aclr" -> 1
               [] role = "Clock" -> 2 [] role = "Cin" -> 3
               [] role = "Cout" -> 4 [] role = "Overflow" -> 5
               [] role = "DataA" -> 6 + 3 * i [] role = "DataB" -> 7 + 3 * i
               [] role = "Result" -> 8 + 3 * i)
      [] d.kind = "NetCLShift" ->
            (CASE role = "Direction" -> 0 [] role = "Underflow" -> 1
               [] role = "Overflow" -> 2 [] role = "Data" -> 3 + i
               [] role = "Result" -> 3 + d.w + i
               [] role = "Distance" -> 3 + 2 * d.w + i)
      [] d.kind = "NetCompare" ->
            (CASE role = "Aclr" -> 0 [] role = "Clock" -> 1
               [] role = "AGB" -> 2 [] role = "AGEB" -> 3
               [] role = "AEB" -> 4 [] role = "ANEB" -> 5
               [] role = "ALB" -> 6 [] role = "ALEB" -> 7
               [] role = "DataA" -> 8 + i [] role = "DataB" -> 8 + d.w + i)
      [] d.kind = "NetMux" ->
            (CASE role = "Aclr" -> 0 [] role = "Clock" -> 1
               [] role = "Result" -> 2 + i [] role = "Sel" -> 2 + d.w + i
               [] role = "Data" -> 2 + d.w + d.sw + j * d.w + i)
      [] d.kind = "NetRamDq" ->
            (CASE role = "InClock" -> 0 [] role = "OutClock" -> 1
               [] role = "WE" -> 2 [] role = "Address" -> 3 + i
               [] role = "Data" -> 3 + d.awid + i
               [] role = "Q" -> 3 + d.awid + d.w + i)

\* The number of pins of a role of a device.
RoleWidth(d, role) ==
    IF role \in FixedRoles(d) THEN 1
    ELSE IF d.kind = "NetCLShift" /\ role = "Distance" THEN d.wd
    ELSE IF d.kind = "NetMux" /\ role = "Sel" THEN d.sw
    ELSE IF d.kind = "NetRamDq" /\ role = "Address" THEN d.awid
    ELSE d.w

\* The legal calls of the accessors of a device: role, bit, input.
LegalCalls(d) ==
    {c \in (FixedRoles(d) \cup VectorRoles(d)) \X DevWidths \X DevWidths :
        /\ c[2] < RoleWidth(d, c[1])
        /\ IF d.kind = "NetMux" /\ c[1] = "Data" THEN c[3] < d.s ELSE c[3] = 0}

\* C27: for each device and each width and size, the pin accessors return
\* the indices of the pinout table, the indices of different pins are
\* different, all are below pin_count, and with the fixed pins they are all
\* the indices of the device.
C27_Pinout ==
    dev # NoDev
    => /\ \A c \in LegalCalls(dev) :
             /\ dev_pin(dev, c[1], c[2], c[3]) = Pinout(dev, c[1], c[2], c[3])
             /\ dev_pin(dev, c[1], c[2], c[3]) \in 0..(dev_pin_count(dev) - 1)
       /\ \A c \in LegalCalls(dev) : \A e \in LegalCalls(dev) :
             c # e => dev_pin(dev, c[1], c[2], c[3])
                         # dev_pin(dev, e[1], e[2], e[3])
       /\ {dev_pin(dev, c[1], c[2], c[3]) : c \in LegalCalls(dev)}
             = 0..(dev_pin_count(dev) - 1)
       /\ (op.name = "pin" /\ <<op.role, op.i, op.j>> \in LegalCalls(dev))
             => /\ pc = "idle"
                /\ op.result = Pinout(dev, op.role, op.i, op.j)

\* pin_Data(1, 1) has been called on a NetMux of width 2, size 2 and select
\* width 1, and it gave the last pin of the device.
C27_Witness ==
    /\ dev = [kind |-> "NetMux", w |-> 2, s |-> 2, sw |-> 1]
    /\ op.name = "pin"
    /\ op.role = "Data"
    /\ op.i = 1
    /\ op.j = 1
    /\ pc = "idle"
    /\ op.result = dev_pin_count(dev) - 1

\* The attributes of an object as a set of pairs of key and value.
Pairs(m) == {<<k, m[k]>> : k \in DOMAIN m}

\* C28: A.has_compat_attributes(B) is true iff every key of B is a key of A
\* with the same value: it is true for B = A and when the attributes of B
\* are among those of A, B without attributes included, and false when B has
\* a key that A has not or has with another value.
C28_HasCompatAttributes ==
    op.name = "has_compat_attributes"
    => /\ op.result
            = (Pairs(attributes_[op.that]) \subseteq Pairs(attributes_[op.this]))
       /\ op.this = op.that => op.result
       /\ DOMAIN attributes_[op.that] = {} => op.result
       /\ (\E k \in DOMAIN attributes_[op.that] :
              \/ k \notin DOMAIN attributes_[op.this]
              \/ attributes_[op.this][k] # attributes_[op.that][k])
             => ~op.result

\* A has been compared with a B that has the keys of A, one of them with
\* another value, and the result is false.
C28_Witness ==
    /\ op.name = "has_compat_attributes"
    /\ op.this # op.that
    /\ DOMAIN attributes_[op.that] = AttrKeys
    /\ DOMAIN attributes_[op.this] = AttrKeys
    /\ attributes_[op.this]["k1"] = attributes_[op.that]["k1"]
    /\ attributes_[op.this]["k2"] # attributes_[op.that]["k2"]
    /\ ~op.result

\* The places of an event in the trace of the last operation.
TraceAt(e) == {i \in 1..Len(op.trace) : op.trace[i] = e}

\* The last operation was absorb_partners on a port A that has absorbed the
\* other port B.
Absorbed ==
    /\ op.name = "absorb_partners"
    /\ pc = "idle"
    /\ FirstPartner # NoRam
    /\ FirstPartner \notin alive

\* C29: when absorb_partners on port A absorbs port B, connect has been
\* applied to each pair of corresponding pins before B is destroyed, B is
\* destroyed once, and every pin of another object that was on the ring of a
\* pin of B is afterwards on the ring of the corresponding pin of A.
C29_AbsorbKeepsConnectivity ==
    Absorbed
    => LET A == op.node
           B == FirstPartner
       IN  /\ Cardinality(TraceAt(<<"delete", B>>)) = 1
           /\ \A k \in 0..(pin_count(B) - 1) :
                 \E i \in TraceAt(<<"connect", Link(A, k), Link(B, k)>>) :
                    \A j \in TraceAt(<<"delete", B>>) : i < j
           /\ \A k \in 0..(pin_count(B) - 1) :
                 \A q \in RingOf(pre, Link(B, k)) :
                    q.node_ # B => q \in RingOf(Ring, Link(A, k))

\* B has been absorbed, and a pin of B was linked to a pin of the NetBUFZ
\* while the corresponding pin of A was linked to nothing.
C29_Witness ==
    /\ Absorbed
    /\ \E k \in 0..(pin_count(FirstPartner) - 1) :
          /\ RingOf(pre, Link(op.node, k)) = {Link(op.node, k)}
          /\ \E q \in RingOf(pre, Link(FirstPartner, k)) : q.node_ = b1
          /\ \E q \in RingOf(Ring, Link(op.node, k)) : q.node_ = b1

\* The places of an event in the trace of absorb_partners.
StepsAt(e) == {i \in 1..Len(ram_trace) : ram_trace[i] = e}

\* The ports that were on the list when absorb_partners began, but for the
\* calling port.
Partners == {op.list[i] : i \in 1..Len(op.list)} \ {op.node}

\* What absorb_partners has done so far: it has examined and destroyed only
\* partners, each at most once, and has not read next_ of a destroyed port;
\* and when it is back it has examined every partner.
AbsorbWalkSafe ==
    op.name = "absorb_partners"
    => /\ pc # "abort"
       /\ \A r \in RamDqs :
             /\ Cardinality(StepsAt(<<"examine", r>>)) <= 1
             /\ Cardinality(StepsAt(<<"delete", r>>)) <= 1
             /\ (StepsAt(<<"examine", r>>) # {} \/ StepsAt(<<"delete", r>>) # {})
                   => r \in Partners
             /\ \A i \in StepsAt(<<"delete", r>>) :
                   \A j \in StepsAt(<<"next", r>>) : j < i
       /\ op.node \in alive
       /\ pc = "idle"
             => \A r \in Partners : Cardinality(StepsAt(<<"examine", r>>)) = 1

\* C30: for any list of ports and any place of the calling port in it,
\* absorb_partners examines every other port that was on the list at the
\* start exactly once, never reads next_ of a port after destroying it, never
\* examines or destroys the calling port, and terminates.
C30_AbsorbWalk ==
    /\ []AbsorbWalkSafe
    /\ (pc = "absorb_loop") ~> (pc = "idle")

\* absorb_partners is back from a list of three ports with the calling port
\* last: it has destroyed the first port and the port next to it.
C30_Witness ==
    /\ op.name = "absorb_partners"
    /\ pc = "idle"
    /\ Len(op.list) = 3
    /\ op.list[3] = op.node
    /\ StepsAt(<<"delete", op.list[1]>>) # {}
    /\ StepsAt(<<"delete", op.list[2]>>) # {}
    /\ RamList = <<op.node>>

(***************************************************************************)
(* The claims about the lookups by scope path and name.                    *)
(***************************************************************************)
\* The names of the signals on the ring of the Design.
SignalKeys == {NetName(n) : n \in {x \in NetNets : design_[x]}}

\* The five registries hold entries under the same keys.
SameKeys ==
    /\ DOMAIN parameters_ = SignalKeys
    /\ DOMAIN memories_ = SignalKeys
    /\ DOMAIN funcs_ = SignalKeys
    /\ DOMAIN tasks_ = SignalKeys

\* The entry that a registry holds under the key k, and its null sentinel.
EntryOf(which, k) ==
    CASE which = "find_signal" ->
             CHOOSE n \in NetNets : design_[n] /\ NetName(n) = k
      [] which = "find_parameter" -> parameters_[k]
      [] which = "find_memory" -> memories_[k]
      [] which = "find_function" -> funcs_[k]
      [] which = "find_task" -> tasks_[k]

NullOf(which) ==
    CASE which = "find_signal" -> NoSignal
      [] which = "find_parameter" -> NoExpr
      [] OTHER -> NoEntry

\* What a lookup returns now.
ResultOf(which, path, name) ==
    CASE which = "find_signal" -> find_signal(SigRing, path, name)
      [] which = "find_parameter" -> find_parameter(parameters_, path, name)
      [] which = "find_memory" -> find_memory(memories_, path, name)
      [] which = "find_function" -> find_function(funcs_, path, name)
      [] which = "find_task" -> find_task(tasks_, path, name)

\* C31: when the five registries hold entries under the same keys, for every
\* path and name the five lookups return the entry of one and the same key,
\* or all of them return their null sentinel; and a lookup returns what it
\* finds and leaves the registries and the counter of errors as they were.
C31_LookupsAgree ==
    /\ SameKeys =>
          \A path \in LookupPaths : \A name \in LookupNames :
             \E k \in SignalKeys \cup {<<>>} :
                \A which \in Lookups :
                   ResultOf(which, path, name) =
                       IF k = <<>> THEN NullOf(which) ELSE EntryOf(which, k)
    /\ op.name \in Lookups =>
          /\ op.result = ResultOf(op.name, op.path, op.pname)
          /\ op.before = Registries

\* find_signal has been called from the scope a.a.a with two signals and the
\* same keys in every registry, and has found the signal of the scope a.a.
C31_Witness ==
    /\ SameKeys
    /\ Cardinality(SignalKeys) = 2
    /\ op.name = "find_signal"
    /\ op.path = <<"a", ".", "a", ".", "a">>
    /\ op.result # NoSignal
    /\ NetName(op.result) = <<"a", ".", "a", ".", "K">>

\* The characters that a wildcard stands for, in the order ?: 0 1 x,
\* n: f F N, p: r R P, _: f F, *: r R f F P N; any other character stands
\* for itself.
Replacements(c) ==
    CASE c = "?" -> <<"0", "1", "x">>
      [] c = "n" -> <<"f", "F", "N">>
      [] c = "p" -> <<"r", "R", "P">>
      [] c = "_" -> <<"f", "F">>
      [] c = "*" -> <<"r", "R", "f", "F", "P", "N">>
      [] OTHER -> <<c>>

\* The sequences of seqs, one after the other.
RECURSIVE Flatten(_)
Flatten(seqs) ==
    IF seqs = <<>> THEN <<>> ELSE Head(seqs) \o Flatten(Tail(seqs))

\* The ground rows of a row: each wildcard replaced independently.
RECURSIVE GroundRows(_)
GroundRows(row) ==
    IF row = <<>>
    THEN <<<<>>>>
    ELSE LET rest == GroundRows(Tail(row))
             first == Replacements(Head(row))
         IN  Flatten([i \in 1..Len(first) |->
                         [j \in 1..Len(rest) |-> <<first[i]>> \o rest[j]]])

\* set_table called once for each of rows, from the k-th on.
RECURSIVE SetEach(_, _, _, _)
SetEach(st, grs, output, k) ==
    IF ~st.ok \/ k > Len(grs)
    THEN st
    ELSE SetEach(set_table_sequ(st.fsm, grs[k], output), grs, output, k + 1)

HasWildcard(row) == \E i \in 1..Len(row) : Len(Replacements(row[i])) > 1

\* C32: set_table with a row that has wildcards leaves the sequential UDP
\* with the table that one call of set_table for each ground row of the row
\* leaves, and it fails exactly when one of those calls fails.
C32_WildcardsExpand ==
    (op.name = "set_table" /\ HasWildcard(op.input))
    => LET r == SetEach([fsm |-> op.before, ok |-> TRUE],
                        GroundRows(op.input), op.output, 1)
       IN  /\ (pc = "idle") = r.ok
           /\ r.ok => fsm_ = r.fsm

\* A row with a level wildcard and an edge wildcard has been set, after the
\* ground row 0r, and all of its eighteen ground rows are in the table.
C32_Witness ==
    /\ op.name = "set_table"
    /\ op.input = <<"?", "*">>
    /\ pc = "idle"
    /\ op.before # <<>>
    /\ <<"0", "0">> \in DOMAIN op.before
    /\ op.before[<<"0", "0">>].pins[1].one # NoState
    /\ Len(GroundRows(op.input)) = 18
    /\ \A a \in Levels : \A b \in Levels : <<a, b>> \in DOMAIN fsm_

(***************************************************************************)
(* The claims about the width of an addition and about assignments.        *)
(***************************************************************************)
Max(a, b) == IF a >= b THEN a ELSE b

\* C33 as the specification states it: the constructor of an addition only
\* widens the narrower operand; its width is the larger of the two widths
\* when the narrower operand takes that width and 0 when it does not, and the
\* width of the wider operand is not reduced.
C33_Original ==
    op.name = "NetEBAdd"
    => LET a == op.before[op.l].width
           b == op.before[op.r].width
           narrow == IF a < b THEN op.l ELSE op.r
           wide == IF a < b THEN op.r ELSE op.l
       IN  /\ wexprs[wide].width = op.before[wide].width
           /\ wexprs[op.expr].width =
                 IF a = b \/ Max(a, b) \in op.before[narrow].accepts
                 THEN Max(a, b)
                 ELSE 0

\* The r-value of the assignment built last conflicts with the width of its
\* l-value: the widths differ, and with a bit select of the l-value the
\* r-value does not take the width 1.
Conflicts ==
    IF op.mux THEN 1 \notin op.rv.accepts ELSE op.rv.width # op.w

\* C34 as the specification states it: each constructor of an assignment
\* adds one to the counter of errors when the width of the r-value conflicts
\* with the width of the l-value and leaves the counter when the widths
\* match, and in both cases stores the r-value and the bit select.
C34_Original ==
    op.name \in {"NetAssign", "NetAssignNB"}
    => /\ errors = op.errors + (IF Conflicts THEN 1 ELSE 0)
       /\ stmts[op.stmt].rval_ = RvalAt
       /\ op.mux => stmts[op.stmt].bmux_ = BmuxAt

(***************************************************************************)
(* The claims about a pass that consumes a ring.                           *)
(***************************************************************************)
\* The registered elements that func accepts, in the order of registration.
Accepted(which, func) ==
    SelectSeq(IF which = "signals" THEN sig_order ELSE node_order,
              LAMBDA x : x \in func)

\* What a pass has found so far is the start of the accepted elements in the
\* order of their registration, none of them was marked when it was found,
\* and a pass that is back has found all of them.
ConsumeSafe ==
    op.name = "consume"
    => /\ pc # "abort"
       /\ Len(op.found) <= Len(Accepted(op.which, op.func))
       /\ op.found = SubSeq(Accepted(op.which, op.func), 1, Len(op.found))
       /\ \A i \in 1..Len(op.marked) : ~op.marked[i]
       /\ pc = "idle" => op.found = Accepted(op.which, op.func)

\* C35: after the marks are cleared, the loop that finds an element and
\* marks it returns every registered element that the predicate accepts once,
\* in the order of registration, never a marked one, and then finds none.
C35_ConsumeAndMark ==
    /\ []ConsumeSafe
    /\ (pc = "consume_loop") ~> (pc = "idle")

\* A pass over two registered signals has found both, in the order of their
\* registration, and is back.
C35_Witness ==
    /\ op.name = "consume"
    /\ op.which = "signals"
    /\ pc = "idle"
    /\ Len(sig_order) = 2
    /\ op.found = sig_order

(***************************************************************************)
(* The claims about the end of connect.                                    *)
(***************************************************************************)
\* How many times the running connect has moved the link p.
MovesOf(p) == Cardinality({i \in 1..Len(op.moves) : op.moves[i] = p})

\* The running connect has moved links of the ring of l only, each of them
\* at most twice.
MovesBounded ==
    pc \in {"connect_loop", "connect_exit"}
    => \A p \in NexusLinks :
          /\ MovesOf(p) <= 2
          /\ MovesOf(p) > 0 => p \in RingOf(pre, cl)

\* C36: a call of connect on two distinct links of well-formed rings comes
\* back, whether the links are on two rings or on one, and it moves each
\* link of the ring of l at most twice.
C36_ConnectTerminates ==
    /\ []MovesBounded
    /\ (pc = "connect_loop") ~> (pc = "idle")

\* connect is at its end after it has moved a link of a ring of three links
\* twice.
C36_Witness ==
    /\ pc = "connect_exit"
    /\ Cardinality(RingOf(pre, cl)) = 3
    /\ cr \notin RingOf(pre, cl)
    /\ \E p \in NexusLinks : MovesOf(p) = 2

(***************************************************************************)
(* The claims about the slot that table_lookup reads.                      *)
(***************************************************************************)
\* The last call is a table_lookup that has passed its asserts on pin and
\* on from, has found from in the table and has indexed the pins of the
\* state for a level.
ReadsSlot ==
    /\ op.name = "table_lookup"
    /\ op.pin <= SequPins
    /\ Len(op.from) = SequPins
    /\ op.from \in DOMAIN fsm_
    /\ op.to \in Levels

\* C37 as the specification states it: a table_lookup that passes its
\* checks indexes the pins of the state, an array of pin_count slots, with
\* a pin below pin_count.
C37_Original == ReadsSlot => op.pin < SequPins

(***************************************************************************)
(* The claims about a whole pass of absorb_partners.                       *)
(***************************************************************************)
\* The ports that are on the list of the memory.
OnList == {RamList[i] : i \in 1..Len(RamList)}

\* C38 as the specification states it: when absorb_partners on port A has
\* returned, no other port that is left on the list of the memory is
\* mergeable with A, in whatever order the ports were on the list.
C38_Original ==
    (op.name = "absorb_partners" /\ pc = "idle")
    => \A B \in OnList \ {op.node} : ~Mergeable(Ring, op.node, B)

(***************************************************************************)
(* The claims about the list of processes.                                 *)
(***************************************************************************)
\* The elements of a sequence.
Elems(seq) == {seq[i] : i \in 1..Len(seq)}

\* The element after top in the sequence, NoTop when top is the last.
SuccessorIn(seq, top) ==
    LET i == CHOOSE j \in 1..Len(seq) : seq[j] = top
    IN  IF i = Len(seq) THEN NoTop ELSE seq[i + 1]

\* The last call was delete_process(top) on a process of the list.
DeletedListed ==
    /\ op.name = "delete_process"
    /\ op.top \in Elems(op.before.list)

\* C39: after any sequence of add_process and delete_process the list holds
\* the processes added and not deleted, each once, the last added first;
\* delete_process(top) removes top alone and keeps the order of the others,
\* and a cursor that was on top is on the successor of top afterwards, so
\* that a cursor that was on the list or null still is.
C39_ProcessList ==
    (pc = "idle") =>
        /\ ProcList = proc_log
        /\ Cardinality(Elems(ProcList)) = Len(ProcList)
        /\ op.name = "add_process" => ProcList = <<op.top>> \o op.before.list
        /\ DeletedListed =>
              /\ ProcList = SelectSeq(op.before.list, LAMBDA t : t # op.top)
              /\ procs_idx_ # op.top
              /\ op.before.idx = op.top =>
                    procs_idx_ = SuccessorIn(op.before.list, op.top)
              /\ op.before.idx # op.top => procs_idx_ = op.before.idx
              /\ op.before.idx \in Elems(op.before.list) \cup {NoTop} =>
                    procs_idx_ \in Elems(ProcList) \cup {NoTop}

\* The process in the middle of a list of three has been deleted while the
\* cursor of a walk was on it, and the cursor is on the last of the list.
C39_Witness ==
    /\ pc = "idle"
    /\ DeletedListed
    /\ Len(op.before.list) = 3
    /\ op.before.list[2] = op.top
    /\ op.before.idx = op.top
    /\ procs_idx_ = op.before.list[3]
    /\ ProcList = <<op.before.list[1], op.before.list[3]>>

(***************************************************************************)
(* The claims about the compile-time check of the math functions.          *)
(***************************************************************************)
\* va_error_message has printed that the number of arguments is wrong, and
\* has asked for the end of the simulation.
ArityError ==
    /\ va_finish
    /\ \E i \in 1..Len(va_msgs) :
          va_msgs[i] \in {<<"requires two arguments">>,
                          <<"takes only two arguments">>}

\* The check has returned, and malloc had given it memory.
VaReturned == pc = "idle" /\ op.name = "compiletf" /\ op.done /\ op.malloc

\* C40 as the specification states it: for a call with any number of
\* arguments, once vpi_scan has returned null and freed the iterator, the
\* iterator is not given to vpi_scan again; and the check reports an error
\* of arity, and asks for the end of the simulation, iff the number of
\* arguments is not two.
C40_Original ==
    /\ [](va_argv.freed => [](~va_argv.stale))
    /\ [](VaReturned => (ArityError <=> Len(va_args) # 2))

====
